---- MODULE Spec2Model ----
(***************************************************************************)
(* gmaps-gpx: the URL extractor (parseGoogleMapsUrl) and the track         *)
(* serializer (generateGpx) of src/lib.ts, modelled on character strings.  *)
(* Strings are TLA+ strings; Char(s, i) is the i-th character (1-based).   *)
(* Coordinates are decimal numbers held in fixed point: the integer v      *)
(* stands for v / Scale.                                                   *)
(***************************************************************************)
EXTENDS Integers, Sequences, FiniteSets, Bags, TLC

\* ------------------------------------------------------------------------
\* Bounds of the model
\* ------------------------------------------------------------------------
\* fractional digits kept by the fixed-point numbers
FracDigits == 1
\* longest list of /dir/ path segments drawn for an input URL
MaxSegs == 2
\* longest list of items in the data token stream drawn for an input URL
MaxPairs == 3
\* longest waypoint list drawn for a RouteData handed to generateGpx
MaxWaypoints == 2

\* ------------------------------------------------------------------------
\* Strings
\* ------------------------------------------------------------------------
Char(s, i) == SubSeq(s, i, i)

\* s has the literal lit at position i
HasAt(s, i, lit) ==
  /\ i >= 1
  /\ i + Len(lit) - 1 <= Len(s)
  /\ SubSeq(s, i, i + Len(lit) - 1) = lit

IsDigit(c) == c \in {"0", "1", "2", "3", "4", "5", "6", "7", "8", "9"}

\* whitespace as String.prototype.trim sees it (ASCII part)
IsSpace(c) == c \in {" ", "\t", "\n", "\r", "\f"}

\* least element of a non-empty set of integers
Min(S) == CHOOSE p \in S : \A q \in S : p <= q

\* first position >= i where the literal lit occurs in s, 0 when there is none
FindLit(s, lit, i) ==
  LET found == { p \in i..(Len(s) - Len(lit) + 1) : HasAt(s, p, lit) }
  IN IF found = {} THEN 0 ELSE Min(found)

\* first position >= i of s holding character c, Len(s) + 1 when there is none
FindChar(s, c, i) ==
  LET p == FindLit(s, c, i)
  IN IF p = 0 THEN Len(s) + 1 ELSE p

\* position of character c in the table tbl, 0 when absent
IndexIn(tbl, c) == FindLit(tbl, c, 1)

\* the strings pieces[lo], ..., pieces[hi] joined, by halves
RECURSIVE ConcatAll(_, _, _)
ConcatAll(pieces, lo, hi) ==
  IF lo > hi THEN ""
  ELSE IF lo = hi THEN pieces[lo]
  ELSE ConcatAll(pieces, lo, (lo + hi) \div 2)
       \o ConcatAll(pieces, ((lo + hi) \div 2) + 1, hi)

\* str.replace(/c/g, r) for a one-character pattern c
ReplaceAll(s, c, r) ==
  ConcatAll([i \in 1..Len(s) |-> IF Char(s, i) = c THEN r ELSE Char(s, i)],
            1, Len(s))

\* str.split(c) for a one-character separator
RECURSIVE Split(_, _)
Split(s, c) ==
  LET p == FindChar(s, c, 1)
  IN IF p > Len(s) THEN <<s>>
     ELSE <<SubSeq(s, 1, p - 1)>> \o Split(SubSeq(s, p + 1, Len(s)), c)

RECURSIVE TrimStart(_)
TrimStart(s) ==
  IF s # "" /\ IsSpace(Head(s)) THEN TrimStart(Tail(s)) ELSE s

RECURSIVE TrimEnd(_)
TrimEnd(s) ==
  IF s # "" /\ IsSpace(Char(s, Len(s)))
  THEN TrimEnd(SubSeq(s, 1, Len(s) - 1)) ELSE s

Trim(s) == TrimEnd(TrimStart(s))

RECURSIVE SelectTrimmed(_)
SelectTrimmed(segs) ==
  IF segs = <<>> THEN <<>>
  ELSE (IF Trim(Head(segs)) # "" THEN <<Head(segs)>> ELSE <<>>)
       \o SelectTrimmed(Tail(segs))

\* ------------------------------------------------------------------------
\* Numbers
\* ------------------------------------------------------------------------
RECURSIVE Pow10(_)
Pow10(n) == IF n = 0 THEN 1 ELSE 10 * Pow10(n - 1)

Scale == Pow10(FracDigits)

DigitTable == "0123456789"

DigitVal(c) == IndexIn(DigitTable, c) - 1

\* first position >= i of s that does not hold a digit
RECURSIVE DigitsEnd(_, _)
DigitsEnd(s, i) ==
  IF i <= Len(s) /\ IsDigit(Char(s, i)) THEN DigitsEnd(s, i + 1) ELSE i

\* The regular expression -?\d+\.?\d* matched greedily at position i of s:
\* the position after the match, 0 when it does not match there.
NumEnd(s, i) ==
  LET j == IF HasAt(s, i, "-") THEN i + 1 ELSE i
      k == DigitsEnd(s, j)
      m == IF HasAt(s, k, ".") THEN k + 1 ELSE k
  IN IF k = j THEN 0 ELSE DigitsEnd(s, m)

\* value of the digit string s[i..j-1]
RECURSIVE DigitsVal(_, _, _, _)
DigitsVal(s, i, j, acc) ==
  IF i >= j THEN acc
  ELSE DigitsVal(s, i + 1, j, 10 * acc + DigitVal(Char(s, i)))

\* parseFloat of a string matching -?\d+\.?\d*, in units of 1 / Scale.
\* The inputs carry at most FracDigits fractional digits.
parseFloat(str) ==
  LET neg == HasAt(str, 1, "-")
      j == IF neg THEN 2 ELSE 1
      k == DigitsEnd(str, j)
      m == IF HasAt(str, k, ".") THEN k + 1 ELSE k
      e == DigitsEnd(str, m)
      nfrac == IF e - m > FracDigits THEN FracDigits ELSE e - m
      mag == DigitsVal(str, j, k, 0) * Scale
             + DigitsVal(str, m, m + nfrac, 0) * Pow10(FracDigits - nfrac)
  IN IF neg THEN 0 - mag ELSE mag

RECURSIVE NatToStr(_)
NatToStr(n) ==
  IF n < 10 THEN Char(DigitTable, n + 1)
  ELSE NatToStr(n \div 10) \o Char(DigitTable, (n % 10) + 1)

\* the fractional digits of f (0 <= f < 10^w) without trailing zeros
RECURSIVE FracToStr(_, _)
FracToStr(f, w) ==
  IF f = 0 THEN ""
  ELSE Char(DigitTable, (f \div Pow10(w - 1)) + 1)
       \o FracToStr(f % Pow10(w - 1), w - 1)

\* Number::toString of the value v / Scale (the `${wp.lat}` of a template)
NumberToString(v) ==
  LET mag == IF v < 0 THEN 0 - v ELSE v
      frac == mag % Scale
  IN (IF v < 0 THEN "-" ELSE "")
     \o NatToStr(mag \div Scale)
     \o (IF frac = 0 THEN "" ELSE "." \o FracToStr(frac, FracDigits))

\* ------------------------------------------------------------------------
\* Percent decoding
\* ------------------------------------------------------------------------
HexTable == "0123456789ABCDEF"
HexTableLower == "0123456789abcdef"

IsHex(c) == IndexIn(HexTable, c) > 0 \/ IndexIn(HexTableLower, c) > 0

HexVal(c) ==
  IF IndexIn(HexTable, c) > 0 THEN IndexIn(HexTable, c) - 1
  ELSE IndexIn(HexTableLower, c) - 1

\* The printable ASCII characters by code: 32..95 and 97..126 (a TLA+ string
\* cannot hold the grave accent, code 96, which no input here carries).
AsciiLow ==
  " !\"#$%&'()*+,-./0123456789:;<=>?@ABCDEFGHIJKLMNOPQRSTUVWXYZ[\\]^_"
AsciiHigh == "abcdefghijklmnopqrstuvwxyz{|}~"

Printable(code) ==
  \/ code - 31 \in 1..Len(AsciiLow)
  \/ code - 96 \in 1..Len(AsciiHigh)

\* the character of a code unit; the inputs carry printable ASCII escapes only
FromCharCode(code) ==
  IF code - 31 \in 1..Len(AsciiLow) THEN Char(AsciiLow, code - 31)
  ELSE Char(AsciiHigh, code - 96)

IsEscape(s, i) ==
  /\ HasAt(s, i, "%")
  /\ i + 2 <= Len(s)
  /\ IsHex(Char(s, i + 1))
  /\ IsHex(Char(s, i + 2))

EscapeCode(s, i) == 16 * HexVal(Char(s, i + 1)) + HexVal(Char(s, i + 2))

\* position i of s starts an escape that stands for a character
Decodable(s, i) == IsEscape(s, i) /\ Printable(EscapeCode(s, i))

\* position i of s holds one of the two hex digits of such an escape
InEscape(s, i) == Decodable(s, i - 1) \/ Decodable(s, i - 2)

\* what position i of s gives to the decoded string
DecodedAt(s, i) ==
  IF Decodable(s, i) THEN FromCharCode(EscapeCode(s, i))
  ELSE IF InEscape(s, i) THEN ""
  ELSE Char(s, i)

\* The percent decoding of URLSearchParams: a '%' that does not start a
\* well-formed escape is kept as it is.
PercentDecode(s) ==
  ConcatAll([i \in 1..Len(s) |-> DecodedAt(s, i)], 1, Len(s))

\* decodeURIComponent: [ok |-> TRUE, val |-> decoded], or ok = FALSE when it
\* throws URIError (a '%' that does not start a well-formed escape).
decodeURIComponent(s) ==
  IF \A i \in 1..Len(s) : Char(s, i) = "%" => Decodable(s, i)
  THEN [ok |-> TRUE, val |-> PercentDecode(s)]
  ELSE [ok |-> FALSE, val |-> ""]

\* ------------------------------------------------------------------------
\* The regular expressions of parseGoogleMapsUrl
\* ------------------------------------------------------------------------
\* A match result is <<>> for null and <<group1, ...>> for a match.

\* url.match(/\/maps\/dir\/([^@]+)/): leftmost "/maps/dir/" followed by at
\* least one character other than '@'; the group runs to the next '@'.
RECURSIVE DirMatch(_, _)
DirMatch(url, i) ==
  LET p == FindLit(url, "/maps/dir/", i)
      b == p + Len("/maps/dir/")
  IN IF p = 0 THEN <<>>
     ELSE IF b <= Len(url) /\ Char(url, b) # "@"
       THEN <<SubSeq(url, b, FindChar(url, "@", b) - 1)>>
     ELSE DirMatch(url, p + 1)

\* loc.match(/^(-?\d+\.?\d*),(-?\d+\.?\d*)$/)
CoordMatch(loc) ==
  LET e1 == NumEnd(loc, 1)
      e2 == NumEnd(loc, e1 + 1)
  IN IF e1 > 0 /\ HasAt(loc, e1, ",") /\ e2 = Len(loc) + 1
     THEN <<SubSeq(loc, 1, e1 - 1), SubSeq(loc, e1 + 1, e2 - 1)>>
     ELSE <<>>

\* url.match(/\/data=([^?]+)/)
RECURSIVE DataPathMatch(_, _)
DataPathMatch(url, i) ==
  LET p == FindLit(url, "/data=", i)
      b == p + Len("/data=")
  IN IF p = 0 THEN <<>>
     ELSE IF b <= Len(url) /\ Char(url, b) # "?"
       THEN <<SubSeq(url, b, FindChar(url, "?", b) - 1)>>
     ELSE DataPathMatch(url, p + 1)

\* /!1d(-?\d+\.?\d*)!2d(-?\d+\.?\d*)/ tried at position i of s only
CoordRegexAt(s, i) ==
  LET b1 == i + Len("!1d")
      e1 == NumEnd(s, b1)
      b2 == e1 + Len("!2d")
      e2 == NumEnd(s, b2)
  IN IF HasAt(s, i, "!1d") /\ e1 > 0 /\ HasAt(s, e1, "!2d") /\ e2 > 0
     THEN <<SubSeq(s, b1, e1 - 1), SubSeq(s, b2, e2 - 1), e2>>
     ELSE <<>>

\* the coordinate of one match of coordRegex
DataCoord(m) == [lat |-> parseFloat(m[2]), lng |-> parseFloat(m[1])]

\* the while loop over coordRegex.exec(dataParam): every match from
\* lastIndex = i on, left to right, the next search starting where the
\* match ended
RECURSIVE DataCoords(_, _)
DataCoords(dataParam, i) ==
  LET found == { p \in i..Len(dataParam) : CoordRegexAt(dataParam, p) # <<>> }
      m == CoordRegexAt(dataParam, Min(found))
  IN IF found = {} THEN <<>>
     ELSE <<DataCoord(m)>> \o DataCoords(dataParam, m[3])

\* url.match(/@(-?\d+\.?\d*),(-?\d+\.?\d*)/)
RECURSIVE PlaceCoordMatch(_, _)
PlaceCoordMatch(url, i) ==
  LET p == FindChar(url, "@", i)
      e1 == NumEnd(url, p + 1)
      e2 == NumEnd(url, e1 + 1)
  IN IF p > Len(url) THEN <<>>
     ELSE IF e1 > 0 /\ HasAt(url, e1, ",") /\ e2 > 0
       THEN <<SubSeq(url, p + 1, e1 - 1), SubSeq(url, e1 + 1, e2 - 1)>>
     ELSE PlaceCoordMatch(url, p + 1)

\* ------------------------------------------------------------------------
\* new URL(url) and urlObj.searchParams
\* ------------------------------------------------------------------------
IsAlpha(c) ==
  IndexIn("abcdefghijklmnopqrstuvwxyzABCDEFGHIJKLMNOPQRSTUVWXYZ", c) > 0

IsSchemeChar(c) == IsAlpha(c) \/ IsDigit(c) \/ c \in {"+", "-", "."}

\* new URL(url) without a base throws TypeError unless url starts with a
\* scheme; an http(s) URL also needs a host.
ValidURL(href) ==
  LET c == FindChar(href, ":", 1)
      scheme == SubSeq(href, 1, c - 1)
  IN /\ c <= Len(href)
     /\ c > 1
     /\ IsAlpha(Char(href, 1))
     /\ \A i \in 1..(c - 1) : IsSchemeChar(Char(href, i))
     /\ scheme \in {"http", "https"} =>
          /\ HasAt(href, c + 1, "//")
          /\ c + 3 <= Len(href)
          /\ Char(href, c + 3) \notin {"/", "?", "#"}

\* urlObj.search without its leading '?': from the first '?' to the '#'
Query(url) ==
  LET f == FindChar(url, "#", 1)
      q == FindChar(url, "?", 1)
  IN IF q < f THEN SubSeq(url, q + 1, f - 1) ELSE ""

\* name or value of a query pair: '+' is a space, then percent decoding
FormDecode(s) == PercentDecode(ReplaceAll(s, "+", " "))

\* searchParams.get(name) over the '&'-separated pairs: <<>> for null
RECURSIVE SearchParamsGet(_, _)
SearchParamsGet(pairs, name) ==
  IF pairs = <<>> THEN <<>>
  ELSE LET pair == Head(pairs)
           e == FindChar(pair, "=", 1)
       IN IF pair # "" /\ FormDecode(SubSeq(pair, 1, e - 1)) = name
          THEN <<FormDecode(SubSeq(pair, e + 1, Len(pair)))>>
          ELSE SearchParamsGet(Tail(pairs), name)

\* ------------------------------------------------------------------------
\* State
\* ------------------------------------------------------------------------
VARIABLES
  input,           \* the parts the input URL was written from (history only)
  url,             \* parseGoogleMapsUrl: the argument
  pc,              \* position in parseGoogleMapsUrl / generateGpx
  waypoints,       \* parseGoogleMapsUrl: const waypoints
  locationNames,   \* parseGoogleMapsUrl: const locationNames
  dataParam,       \* parseGoogleMapsUrl: let dataParam, <<>> for null
  validWaypoints,  \* parseGoogleMapsUrl: const validWaypoints
  routeName,       \* parseGoogleMapsUrl: let routeName
  err,             \* the error thrown, "none" while there is none
  routeData,       \* generateGpx: the RouteData argument
  args,            \* generateGpx: the optional argument customRouteName
  index,           \* generateGpx: waypoints already visited by forEach
  gpx,             \* generateGpx: let gpx
  str,             \* escapeXml: the argument
  text,            \* escapeXml: the value the next .replace is called on
  passes,          \* escapeXml: .replace calls made so far
  slugText,        \* slugify: the argument text
  slug,            \* slugify: the value the next call of the chain is made on
  slugStep,        \* slugify: calls of the chain made so far
  now,             \* getTimestamp: const now, the local time of new Date()
  nameArg,         \* generateOutputFilename: routeName, <<>> when not given
  timestamp,       \* generateOutputFilename: const timestamp
  filename,        \* generateOutputFilename: the string returned
  entry,           \* the entry point running: a main or convertToGpx
  cliArgs,         \* main: the parsed args; convertToGpx: its arguments
  outputPath,      \* main: const outputPath
  fullUrl,         \* main, convertToGpx: let fullUrl
  network,         \* what a HEAD request that follows redirects meets
  fetched,         \* the URLs fetch was called with, in order
  files,           \* the files written, as path and content
  stderr,          \* the lines written by console.error
  exitCode,        \* the code the process exited with, <<>> while it runs
  rateLimitStore,  \* proxy: const rateLimitStore, a Map from ip to record
  clock,           \* proxy: Date.now(), in ms since the instance started
  ticks,           \* proxy: times the clock was seen to advance
  traffic,         \* proxy: the requests the callers send
  web,             \* proxy: the URLs a followed short link may end at
  req,             \* proxy: the request of the last handler step, <<>> at first
  res,             \* proxy: the response sent by the last handler step
  pending,         \* proxy: the bag of requests whose fetch is awaited
  passed,          \* proxy: per ip, the requests let through in its window
  outcome          \* proxy: how the fetch last awaited ended (history only)

vars == <<input, url, pc, waypoints, locationNames, dataParam, validWaypoints,
          routeName, err, routeData, args, index, gpx, str, text, passes,
          slugText, slug, slugStep, now, nameArg, timestamp, filename,
          entry, cliArgs, outputPath, fullUrl, network, fetched, files,
          stderr, exitCode, rateLimitStore, clock, ticks, traffic, web,
          req, res, pending, passed, outcome>>

parseVars == <<input, url, waypoints, locationNames, dataParam,
               validWaypoints, routeName, err>>
gpxVars == <<routeData, args, index, gpx>>
escVars == <<str, text, passes>>
slugVars == <<slugText, slug, slugStep>>

\* the variables of the functions around the extraction and the serializer
fileVars == <<now, nameArg, timestamp, filename>>
cliVars == <<entry, cliArgs, outputPath, fullUrl, network, fetched, files,
            stderr, exitCode>>
proxyVars == <<rateLimitStore, clock, ticks, traffic, web, req, res,
              pending, passed, outcome>>
toolVars == <<slugVars, fileVars, cliVars, proxyVars>>

\* slugify not called
IdleSlug == slugText = "" /\ slug = "" /\ slugStep = 0

\* the local time of a Date: getFullYear, getMonth (from 0), getDate,
\* getHours, getMinutes, getSeconds
Epoch ==
  [year |-> 1970, month |-> 0, date |-> 1,
   hours |-> 0, minutes |-> 0, seconds |-> 0]

\* generateOutputFilename not called
IdleFile == now = Epoch /\ nameArg = <<>> /\ timestamp = "" /\ filename = ""

\* no entry point running
IdleCli ==
  /\ entry = ""
  /\ cliArgs = <<>>
  /\ outputPath = ""
  /\ fullUrl = ""
  /\ network = <<>>
  /\ fetched = <<>>
  /\ files = {}
  /\ stderr = <<>>
  /\ exitCode = <<>>

\* no proxy instance running
IdleProxy ==
  /\ rateLimitStore = <<>>
  /\ clock = 0
  /\ ticks = 0
  /\ traffic = {}
  /\ web = {}
  /\ req = <<>>
  /\ res = <<>>
  /\ pending = <<>>
  /\ passed = <<>>
  /\ outcome = <<>>

IdleTools == IdleSlug /\ IdleFile /\ IdleCli /\ IdleProxy

\* ------------------------------------------------------------------------
\* parseGoogleMapsUrl, step by step
\* ------------------------------------------------------------------------
DefaultRouteName == "Google Maps Route"

\* the waypoint of a coordinate segment of the /dir/ path
PathCoord(coordMatch) ==
  [lat |-> parseFloat(coordMatch[1]), lng |-> parseFloat(coordMatch[2])]

\* the for loop over locations; ok = FALSE when decodeURIComponent throws
RECURSIVE DirLoop(_, _, _)
DirLoop(locations, wps, names) ==
  IF locations = <<>>
  THEN [ok |-> TRUE, waypoints |-> wps, locationNames |-> names]
  ELSE LET loc == Head(locations)
           coordMatch == CoordMatch(loc)
           decoded == decodeURIComponent(ReplaceAll(loc, "+", " "))
       IN IF coordMatch # <<>>
          THEN DirLoop(Tail(locations),
                       Append(wps, PathCoord(coordMatch)), names)
          ELSE IF decoded.ok
          THEN DirLoop(Tail(locations), wps, Append(names, decoded.val))
          ELSE [ok |-> FALSE, waypoints |-> wps, locationNames |-> names]

\* const urlObj = new URL(url)
NewURL ==
  /\ pc = "start"
  /\ IF ValidURL(url)
     THEN pc' = "dir" /\ err' = err
     ELSE pc' = "failed" /\ err' = "TypeError"
  /\ UNCHANGED <<input, url, waypoints, locationNames, dataParam,
                 validWaypoints, routeName>>
  /\ UNCHANGED <<gpxVars, escVars, toolVars>>

\* Format 1: /dir/ URLs with waypoints
Strategy1 ==
  /\ pc = "dir"
  /\ LET dirMatch == DirMatch(url, 1)
         locations == SelectTrimmed(Split(dirMatch[1], "/"))
         r == DirLoop(locations, waypoints, locationNames)
     IN IF dirMatch = <<>>
        THEN pc' = "data" /\ UNCHANGED <<waypoints, locationNames, err>>
        ELSE IF r.ok
        THEN /\ pc' = "data"
             /\ waypoints' = r.waypoints
             /\ locationNames' = r.locationNames
             /\ err' = err
        ELSE /\ pc' = "failed"
             /\ err' = "URIError"
             /\ UNCHANGED <<waypoints, locationNames>>
  /\ UNCHANGED <<input, url, dataParam, validWaypoints, routeName>>
  /\ UNCHANGED <<gpxVars, escVars, toolVars>>

\* !dataParam
Falsy(opt) == IF opt = <<>> THEN TRUE ELSE opt[1] = ""

\* let dataParam = urlObj.searchParams.get("data"), else the /data= of the path
GetDataParam ==
  /\ pc = "data"
  /\ LET fromQuery == SearchParamsGet(Split(Query(url), "&"), "data")
         dataPathMatch == DataPathMatch(url, 1)
         decoded == decodeURIComponent(dataPathMatch[1])
     IN IF ~Falsy(fromQuery) \/ dataPathMatch = <<>>
        THEN pc' = "dataCoords" /\ dataParam' = fromQuery /\ err' = err
        ELSE IF decoded.ok
        THEN pc' = "dataCoords" /\ dataParam' = <<decoded.val>> /\ err' = err
        ELSE pc' = "failed" /\ err' = "URIError" /\ dataParam' = fromQuery
  /\ UNCHANGED <<input, url, waypoints, locationNames, validWaypoints,
                 routeName>>
  /\ UNCHANGED <<gpxVars, escVars, toolVars>>

\* DataName testing for the last index before the first
DataNameEndFirst(i, n, names) ==
  IF i < Len(names) THEN names[i + 1]
  ELSE IF i = n - 1 THEN "End"
  ELSE IF i = 0 THEN "Start"
  ELSE "Via " \o NatToStr(i)

\* the name given to dataCoords[i] (i counts from 0) among n coordinates
DataName(i, n, names) ==
  IF i < Len(names) THEN names[i + 1]
  ELSE IF i = 0 THEN "Start"
  ELSE IF i = n - 1 THEN "End"
  ELSE "Via " \o NatToStr(i)

\* DataWaypoints naming the pairs that pass the filter, by their position
\* among those
DataWaypointsValidOnly(dataCoords, names) ==
  LET kept == SelectSeq(dataCoords, LAMBDA c : c.lat # 0 \/ c.lng # 0)
  IN [k \in 1..Len(kept) |->
        [lat |-> kept[k].lat,
         lng |-> kept[k].lng,
         name |-> DataName(k - 1, Len(kept), names)]]

\* the waypoints pushed by the loop over dataCoords
DataWaypoints(dataCoords, names) ==
  [k \in 1..Len(dataCoords) |->
     [lat |-> dataCoords[k].lat,
      lng |-> dataCoords[k].lng,
      name |-> DataName(k - 1, Len(dataCoords), names)]]

\* AfterData without waypoints.length = 0
AfterDataKeepingPath(wps, dataCoords, names) ==
  IF Len(dataCoords) > 0 THEN wps \o DataWaypoints(dataCoords, names) ELSE wps

\* the waypoints after the if (dataParam) block
AfterData(wps, dataCoords, names) ==
  IF Len(dataCoords) > 0 THEN DataWaypoints(dataCoords, names) ELSE wps

\* if (dataParam) { ... coordRegex ... }
Strategy2 ==
  /\ pc = "dataCoords"
  /\ pc' = "place"
  /\ waypoints' =
       IF Falsy(dataParam) THEN waypoints
       ELSE AfterData(waypoints, DataCoords(dataParam[1], 1), locationNames)
  /\ UNCHANGED <<input, url, locationNames, dataParam, validWaypoints,
                 routeName, err>>
  /\ UNCHANGED <<gpxVars, escVars, toolVars>>

\* AfterPlace without the test of waypoints.length
AfterPlaceAlways(wps, placeCoordMatch) ==
  IF placeCoordMatch # <<>>
  THEN Append(wps, [lat |-> parseFloat(placeCoordMatch[1]),
                    lng |-> parseFloat(placeCoordMatch[2])])
  ELSE wps

\* the waypoints after the if (placeCoordMatch && waypoints.length === 0)
AfterPlace(wps, placeCoordMatch) ==
  IF placeCoordMatch # <<>> /\ Len(wps) = 0
  THEN Append(wps, [lat |-> parseFloat(placeCoordMatch[1]),
                    lng |-> parseFloat(placeCoordMatch[2])])
  ELSE wps

\* Format 2: Place URL with coordinates in path
Strategy3 ==
  /\ pc = "place"
  /\ pc' = "filter"
  /\ waypoints' = AfterPlace(waypoints, PlaceCoordMatch(url, 1))
  /\ UNCHANGED <<input, url, locationNames, dataParam, validWaypoints,
                 routeName, err>>
  /\ UNCHANGED <<gpxVars, escVars, toolVars>>

\* IsValidWaypoint with && for ||
IsValidWaypointBoth(w) == w.lat # 0 /\ w.lng # 0

\* (w) => w.lat !== 0 || w.lng !== 0
IsValidWaypoint(w) == w.lat # 0 \/ w.lng # 0

\* waypoints.filter(...)
RECURSIVE Filter(_)
Filter(wps) ==
  IF wps = <<>> THEN <<>>
  ELSE (IF IsValidWaypoint(Head(wps)) THEN <<Head(wps)>> ELSE <<>>)
       \o Filter(Tail(wps))

\* Filter out waypoints without valid coordinates; throw when none is left
FilterValid ==
  /\ pc = "filter"
  /\ validWaypoints' = Filter(waypoints)
  /\ IF Len(validWaypoints') = 0
     THEN pc' = "failed" /\ err' = "ExtractionError"
     ELSE pc' = "name" /\ err' = err
  /\ UNCHANGED <<input, url, waypoints, locationNames, dataParam, routeName>>
  /\ UNCHANGED <<gpxVars, escVars, toolVars>>

\* w.name || dflt
NameOr(w, dflt) ==
  IF "name" \in DOMAIN w /\ w.name # "" THEN w.name ELSE dflt

\* RouteName looking at the waypoint count before the names
RouteNameWaypointsFirst(names, valid, current) ==
  IF Len(valid) >= 2
  THEN NameOr(valid[1], "Start") \o " to " \o NameOr(valid[Len(valid)], "End")
  ELSE IF Len(names) >= 2
  THEN names[1] \o " to " \o names[Len(names)]
  ELSE current

\* Generate route name from waypoint names if available
RouteName(names, valid, current) ==
  IF Len(names) >= 2
  THEN names[1] \o " to " \o names[Len(names)]
  ELSE IF Len(valid) >= 2
  THEN NameOr(valid[1], "Start") \o " to " \o NameOr(valid[Len(valid)], "End")
  ELSE current

\* return { waypoints: validWaypoints, routeName }
NameRoute ==
  /\ pc = "name"
  /\ pc' = "done"
  /\ routeName' = RouteName(locationNames, validWaypoints, routeName)
  /\ UNCHANGED <<input, url, waypoints, locationNames, dataParam,
                 validWaypoints, err>>
  /\ UNCHANGED <<gpxVars, escVars, toolVars>>

\* ------------------------------------------------------------------------
\* Input URLs
\* ------------------------------------------------------------------------
\* A number as written in a URL, with the value it denotes (in 1 / Scale)
Num(written, units, tenths) ==
  [str |-> written, val |-> units * Scale + tenths * (Scale \div 10)]

\* !1d<lng>!2d<lat> pairs of a data token stream; the first one is (0, 0),
\* the last one has a zero latitude only
Pairs ==
  { [lng |-> Num("0", 0, 0), lat |-> Num("-0.0", 0, 0)],
    [lng |-> Num("144.9", 144, 9), lat |-> Num("-37.8", -37, -8)],
    [lng |-> Num("7.", 7, 0), lat |-> Num("0", 0, 0)] }

\* segments of a /dir/ path: place names and a coordinate pair
Segs ==
  { [str |-> "Sydney", kind |-> "name"],
    [str |-> "Big+Sur%21", kind |-> "name"],
    [str |-> "51.5,-0.1", kind |-> "coord"] }

\* a place name whose percent-encoding is malformed
BadSeg == [str |-> "50%", kind |-> "bad"]

\* @<lat>,<lng> viewport markers; the second one is (0, 0)
Markers ==
  { [lat |-> Num("-33.8", -33, -8), lng |-> Num("151.2", 151, 2)],
    [lat |-> Num("0", 0, 0), lng |-> Num("0.0", 0, 0)] }

SeqsUpTo(S, n) == UNION { [1..k -> S] : k \in 0..n }

\* at most one value of S
Optional(S) == {<<>>} \cup { <<x>> : x \in S }

\* /dir/ and /place/ URLs with the data parameter in the path, in the query
\* or absent; /dir/ URLs with a malformed segment or /data= segment; a URL
\* without its scheme
Inputs ==
  [ origin : {"https://www.google.com"},
    kind : {"dir"},
    segs : SeqsUpTo(Segs, MaxSegs),
    at : Optional(Markers),
    placement : {"none", "path"},
    pairs : SeqsUpTo(Pairs, MaxPairs) ]
  \cup
  [ origin : {"https://www.google.com"},
    kind : {"dir"},
    segs : SeqsUpTo(Segs, 1),
    at : Optional(Markers),
    placement : {"query"},
    pairs : SeqsUpTo(Pairs, MaxPairs) ]
  \cup
  [ origin : {"https://www.google.com"},
    kind : {"place"},
    segs : {<<>>},
    at : Optional(Markers),
    placement : {"none", "path", "query"},
    pairs : SeqsUpTo(Pairs, MaxPairs) ]
  \cup
  [ origin : {"https://www.google.com"},
    kind : {"dir"},
    segs : { q \o <<BadSeg>> \o r : q \in SeqsUpTo(Segs, 1),
                                     r \in SeqsUpTo(Segs, 1) },
    at : Optional(Markers),
    placement : {"none", "path", "query"},
    pairs : SeqsUpTo(Pairs, 1) ]
  \cup
  [ origin : {"https://www.google.com"},
    kind : {"dir"},
    segs : SeqsUpTo(Segs, 1),
    at : Optional(Markers),
    placement : {"badpath"},
    pairs : SeqsUpTo(Pairs, 1) ]
  \cup
  [ origin : {"www.google.com"},
    kind : {"dir"},
    segs : SeqsUpTo(Segs, 1),
    at : Optional(Markers),
    placement : {"none", "path"},
    pairs : SeqsUpTo(Pairs, 1) ]

RECURSIVE RenderSegs(_)
RenderSegs(segs) ==
  IF segs = <<>> THEN ""
  ELSE Head(segs).str \o "/" \o RenderSegs(Tail(segs))

RECURSIVE RenderPairs(_)
RenderPairs(pairs) ==
  IF pairs = <<>> THEN ""
  ELSE "!2m2!1d" \o Head(pairs).lng.str \o "!2d" \o Head(pairs).lat.str
       \o RenderPairs(Tail(pairs))

\* the token stream: it always holds a '!1d' that no '!2d' follows
RenderData(pairs) == "!4m5!1d9!3e0" \o RenderPairs(pairs)

RenderUrl(in) ==
  in.origin
  \o (IF in.kind = "dir" THEN "/maps/dir/" \o RenderSegs(in.segs)
      ELSE "/maps/place/Opera/")
  \o (IF in.at = <<>> THEN ""
      ELSE "@" \o in.at[1].lat.str \o "," \o in.at[1].lng.str \o ",10z/")
  \o (CASE in.placement = "path" -> "data=" \o RenderData(in.pairs)
        [] in.placement = "badpath" -> "data=%" \o RenderData(in.pairs)
        [] in.placement = "query" -> "?data=" \o RenderData(in.pairs)
        [] OTHER -> "")

\* an input without a data parameter draws no pairs
WellFormedInput(in) == in.placement = "none" => in.pairs = <<>>

NoRouteData == [waypoints |-> <<>>, routeName |-> ""]

InitExtract ==
  /\ IdleTools
  /\ input \in { in \in Inputs : WellFormedInput(in) }
  /\ url = RenderUrl(input)
  /\ pc = "start"
  /\ waypoints = <<>>
  /\ locationNames = <<>>
  /\ dataParam = <<>>
  /\ validWaypoints = <<>>
  /\ routeName = DefaultRouteName
  /\ err = "none"
  /\ routeData = NoRouteData
  /\ args = <<>>
  /\ index = 0
  /\ gpx = ""
  /\ str = ""
  /\ text = ""
  /\ passes = 0

NextExtract ==
  \/ NewURL
  \/ Strategy1
  \/ GetDataParam
  \/ Strategy2
  \/ Strategy3
  \/ FilterValid
  \/ NameRoute

SpecExtract == InitExtract /\ [][NextExtract]_vars

\* ------------------------------------------------------------------------
\* generateGpx
\* ------------------------------------------------------------------------
\* Replacements with the ampersand handled last
ReplacementsAmpLast ==
  << <<"<", "&lt;">>, <<">", "&gt;">>, <<"\"", "&quot;">>,
     <<"'", "&apos;">>, <<"&", "&amp;">> >>

\* the patterns and replacements of escapeXml, in the order of its calls
Replacements ==
  << <<"&", "&amp;">>, <<"<", "&lt;">>, <<">", "&gt;">>,
     <<"\"", "&quot;">>, <<"'", "&apos;">> >>

\* the first n .replace calls of escapeXml applied to s
RECURSIVE ReplaceChain(_, _)
ReplaceChain(s, n) ==
  IF n = 0 THEN s
  ELSE ReplaceAll(ReplaceChain(s, n - 1),
                  Replacements[n][1], Replacements[n][2])

escapeXml(s) == ReplaceChain(s, Len(Replacements))

\* TrackName preferring the route's own name
TrackNameOwnFirst(a, rd) ==
  IF rd.routeName # "" THEN rd.routeName
  ELSE IF "customRouteName" \in DOMAIN a THEN a.customRouteName
  ELSE ""

\* const routeName = customRouteName || routeData.routeName
TrackName(a, rd) ==
  IF "customRouteName" \in DOMAIN a /\ a.customRouteName # ""
  THEN a.customRouteName
  ELSE rd.routeName

\* TrkptName numbering the waypoints from 0
TrkptNameFromZero(wp, i) == NameOr(wp, "Waypoint " \o NatToStr(i))

\* const name = wp.name || `Waypoint ${index + 1}` (index counts from 0)
TrkptName(wp, i) == NameOr(wp, "Waypoint " \o NatToStr(i + 1))

GpxHead(name) ==
  "<?xml version=\"1.0\" encoding=\"UTF-8\"?>\n"
  \o "<gpx version=\"1.1\" creator=\"gmaps-gpx\"\n"
  \o "  xmlns=\"http://www.topografix.com/GPX/1/1\"\n"
  \o "  xmlns:xsi=\"http://www.w3.org/2001/XMLSchema-instance\"\n"
  \o "  xsi:schemaLocation=\"http://www.topografix.com/GPX/1/1 http://www.topografix.com/GPX/1/1/gpx.xsd\">\n"
  \o "  <trk>\n"
  \o "    <name>" \o escapeXml(name) \o "</name>\n"
  \o "    <trkseg>\n"

\* GpxTrkpt with the longitude written as lat and the latitude as lon
GpxTrkptLngFirst(wp, i) ==
  "      <trkpt lat=\"" \o NumberToString(wp.lng)
  \o "\" lon=\"" \o NumberToString(wp.lat) \o "\">\n"
  \o "        <name>" \o escapeXml(TrkptName(wp, i)) \o "</name>\n"
  \o "      </trkpt>\n"

\* gpx += `<trkpt lat="${wp.lat}" lon="${wp.lng}"> <name>...</name> </trkpt>`
GpxTrkpt(wp, i) ==
  "      <trkpt lat=\"" \o NumberToString(wp.lat)
  \o "\" lon=\"" \o NumberToString(wp.lng) \o "\">\n"
  \o "        <name>" \o escapeXml(TrkptName(wp, i)) \o "</name>\n"
  \o "      </trkpt>\n"

GpxTail ==
  "    </trkseg>\n"
  \o "  </trk>\n"
  \o "</gpx>\n"

\* let gpx = `<?xml ... <trkseg>`
WriteHead ==
  /\ pc = "generate"
  /\ pc' = "forEach"
  /\ gpx' = GpxHead(TrackName(args, routeData))
  /\ UNCHANGED <<routeData, args, index>>
  /\ UNCHANGED <<parseVars, escVars, toolVars>>

\* one call of the waypoints.forEach callback
WriteTrkpt ==
  /\ pc = "forEach"
  /\ index < Len(routeData.waypoints)
  /\ gpx' = gpx \o GpxTrkpt(routeData.waypoints[index + 1], index)
  /\ index' = index + 1
  /\ UNCHANGED <<routeData, args, pc>>
  /\ UNCHANGED <<parseVars, escVars, toolVars>>

\* gpx += `</trkseg> ...`; return gpx
WriteTail ==
  /\ pc = "forEach"
  /\ index = Len(routeData.waypoints)
  /\ pc' = "returned"
  /\ gpx' = gpx \o GpxTail
  /\ UNCHANGED <<routeData, args, index>>
  /\ UNCHANGED <<parseVars, escVars, toolVars>>

\* one .replace call of escapeXml
ReplacePass ==
  /\ pc = "escapeXml"
  /\ passes < Len(Replacements)
  /\ text' = ReplaceAll(text, Replacements[passes + 1][1],
                        Replacements[passes + 1][2])
  /\ passes' = passes + 1
  /\ UNCHANGED <<pc, str>>
  /\ UNCHANGED <<parseVars, gpxVars, toolVars>>

\* ------------------------------------------------------------------------
\* Inputs of generateGpx
\* ------------------------------------------------------------------------
\* names met in a RouteData: none, empty, plain, and with reserved characters
WaypointNames == {"", "Sydney", "Tom & \"Jerry's\" <b>"}

Points ==
  { [lat |-> Num("-37.8", -37, -8).val, lng |-> Num("144.9", 144, 9).val],
    [lat |-> Num("51", 51, 0).val, lng |-> Num("0", 0, 0).val] }

Waypoints ==
  Points
  \cup { [lat |-> c.lat, lng |-> c.lng, name |-> n] :
           c \in Points, n \in WaypointNames }

RouteDatas ==
  [ waypoints : SeqsUpTo(Waypoints, MaxWaypoints) \ {<<>>},
    routeName : {DefaultRouteName, "A&B to <C>"} ]

\* the optional second argument: not passed, empty, or a name
Arguments ==
  {<<>>} \cup [ customRouteName : {"", "R&D's \"Trip\" <1>"} ]

InitGpx ==
  /\ IdleTools
  /\ routeData \in RouteDatas
  /\ args \in Arguments
  /\ index = 0
  /\ gpx = ""
  /\ pc = "generate"
  /\ input = <<>>
  /\ url = ""
  /\ waypoints = <<>>
  /\ locationNames = <<>>
  /\ dataParam = <<>>
  /\ validWaypoints = <<>>
  /\ routeName = DefaultRouteName
  /\ err = "none"
  /\ str = ""
  /\ text = ""
  /\ passes = 0

NextGpx ==
  \/ WriteHead
  \/ WriteTrkpt
  \/ WriteTail

SpecGpx == InitGpx /\ [][NextGpx]_vars

\* ------------------------------------------------------------------------
\* Properties of parseGoogleMapsUrl (SpecExtract)
\* ------------------------------------------------------------------------
\* the input URL carries a data parameter with at least one coordinate pair
HasDataPairs == input.placement \in {"path", "query"} /\ input.pairs # <<>>

\* the if (dataParam) block has run
PastStrategy2 ==
  \/ pc \in {"place", "filter", "name", "done"}
  \/ pc = "failed" /\ err = "ExtractionError"

\* the @ fallback has run
PastStrategy3 ==
  \/ pc \in {"filter", "name", "done"}
  \/ pc = "failed" /\ err = "ExtractionError"

\* the filter has run
PastFilter ==
  \/ pc \in {"name", "done"}
  \/ pc = "failed" /\ err = "ExtractionError"

\* the latitudes and longitudes of a waypoint list
Coords(wps) == [k \in 1..Len(wps) |-> <<wps[k].lat, wps[k].lng>>]

\* the values written in a list of data pairs, as <<lat, lng>>
PairCoords(pairs) ==
  [k \in 1..Len(pairs) |-> <<pairs[k].lat.val, pairs[k].lng.val>>]

\* C1: when the data parameter holds at least one !1d<lng>!2d<lat> pair, the
\* waypoint list before the (0,0) filter is exactly those pairs, in their
\* order in the stream, lat from !2d and lng from !1d, and no waypoint of
\* the /dir/ path is left in it.
C1_DataPairsReplacePath ==
  (PastStrategy2 /\ HasDataPairs) => Coords(waypoints) = PairCoords(input.pairs)

\* a /dir/ path with a coordinate segment and two different data pairs
C1_Witness ==
  /\ pc = "place"
  /\ HasDataPairs
  /\ \E k \in 1..Len(input.segs) : input.segs[k].kind = "coord"
  /\ Len(waypoints) = 2
  /\ Coords(waypoints)[1] # Coords(waypoints)[2]

ViaLabels == <<"Via 1", "Via 2", "Via 3", "Via 4", "Via 5">>

\* C2: the waypoint at index i (from 0) of the data coordinates is named
\* locationNames[i] when there is one, else "Start" at index 0, else "End"
\* at the last index, else "Via <i>"; every data waypoint has a name.
C2_DataWaypointNames ==
  (PastStrategy2 /\ HasDataPairs) =>
    \A k \in 1..Len(waypoints) :
      /\ "name" \in DOMAIN waypoints[k]
      /\ waypoints[k].name =
           IF k <= Len(locationNames) THEN locationNames[k]
           ELSE IF k = 1 THEN "Start"
           ELSE IF k = Len(waypoints) THEN "End"
           ELSE ViaLabels[k - 1]

\* three data pairs and one path name: the name, a via point and the end
C2_Witness ==
  /\ pc = "place"
  /\ HasDataPairs
  /\ locationNames = <<"Sydney">>
  /\ Len(waypoints) = 3
  /\ waypoints[1].name = locationNames[1]
  /\ waypoints[2].name = "Via 1"
  /\ waypoints[3].name = "End"

\* the waypoint of the input's @ marker: no name
MarkerWaypoint == [lat |-> input.at[1].lat.val, lng |-> input.at[1].lng.val]

\* a /dir/ URL of place names only, without a data parameter
OnlyPlaceNames ==
  /\ input.kind = "dir"
  /\ input.segs # <<>>
  /\ \A k \in 1..Len(input.segs) : input.segs[k].kind = "name"
  /\ input.placement = "none"

IsOrigin(w) == w.lat = 0 /\ w.lng = 0

NotOrigin(w) == ~IsOrigin(w)

\* C4: the waypoints with lat = 0 and lng = 0 are dropped and the others
\* kept; a returned RouteData has at least one waypoint and none at (0,0);
\* when every candidate is (0,0) extraction fails with ExtractionError.
C4_OriginDropped ==
  /\ pc \in {"name", "done"} =>
       /\ validWaypoints = SelectSeq(waypoints, NotOrigin)
       /\ validWaypoints # <<>>
       /\ \A k \in 1..Len(validWaypoints) : ~IsOrigin(validWaypoints[k])
  /\ (PastFilter /\ \A k \in 1..Len(waypoints) : IsOrigin(waypoints[k]))
       => (pc = "failed" /\ err = "ExtractionError")

\* a (0,0) pair dropped from between kept ones, one of them with lat = 0
C4_Witness ==
  /\ pc = "done"
  /\ Len(waypoints) = 3
  /\ IsOrigin(waypoints[2])
  /\ Len(validWaypoints) = 2
  /\ validWaypoints[2].lat = 0

\* C5: a URL makes the extraction fail with ExtractionError only (the case
\* of no waypoint left); a malformed token or segment never raises another
\* error.
C5_OnlyExtractionError ==
  ValidURL(url) => err \in {"none", "ExtractionError"}

\* the input URL holds a coordinate with a non-zero lat or lng
HasValidCoordinate ==
  \/ \E k \in 1..Len(input.pairs) :
       input.pairs[k].lat.val # 0 \/ input.pairs[k].lng.val # 0
  \/ \E k \in 1..Len(input.segs) : input.segs[k].kind = "coord"
  \/ input.at # <<>> /\ NotOrigin(MarkerWaypoint)

\* C6: extraction fails with ExtractionError only when no strategy can
\* recover a coordinate with a non-zero lat or lng.
C6_FailsOnlyWithoutCoordinate ==
  (pc = "failed" /\ err = "ExtractionError") => ~HasValidCoordinate

\* C7: on success the route name is "<first name> to <last name>" of
\* locationNames when it has two entries or more, whatever the number of
\* waypoints; else "<first waypoint name or Start> to <last waypoint name or
\* End>" when two waypoints or more are left; else "Google Maps Route".
C7_RouteName ==
  pc = "done" =>
    LET n == Len(locationNames)
        m == Len(validWaypoints)
        first == IF "name" \in DOMAIN validWaypoints[1]
                 THEN validWaypoints[1].name ELSE "Start"
        last == IF "name" \in DOMAIN validWaypoints[m]
                THEN validWaypoints[m].name ELSE "End"
    IN routeName =
         CASE n >= 2 -> locationNames[1] \o " to " \o locationNames[n]
           [] n < 2 /\ m >= 2 -> first \o " to " \o last
           [] OTHER -> "Google Maps Route"

\* three data pairs and two path names
C7_Witness ==
  /\ pc = "done"
  /\ Len(validWaypoints) = 3
  /\ locationNames = <<"Sydney", "Big Sur!">>
  /\ routeName = "Sydney to Big Sur!"

\* ------------------------------------------------------------------------
\* Inputs of escapeXml
\* ------------------------------------------------------------------------
\* longest string handed to escapeXml
MaxStrLen == 3

\* the five reserved characters, and two that make up an entity
Alphabet == {"&", "<", ">", "\"", "'", "a", ";"}

Strings == { ConcatAll(q, 1, Len(q)) : q \in SeqsUpTo(Alphabet, MaxStrLen) }

InitEscape ==
  /\ IdleTools
  /\ str \in Strings
  /\ text = str
  /\ passes = 0
  /\ pc = "escapeXml"
  /\ routeData = NoRouteData
  /\ args = <<>>
  /\ index = 0
  /\ gpx = ""
  /\ input = <<>>
  /\ url = ""
  /\ waypoints = <<>>
  /\ locationNames = <<>>
  /\ dataParam = <<>>
  /\ validWaypoints = <<>>
  /\ routeName = DefaultRouteName
  /\ err = "none"

NextEscape == ReplacePass

SpecEscape == InitEscape /\ [][NextEscape]_vars

\* ------------------------------------------------------------------------
\* Properties of generateGpx (SpecGpx) and escapeXml (SpecEscape)
\* ------------------------------------------------------------------------
\* the entity that stands for a character in XML text
Entity(c) ==
  CASE c = "&" -> "&amp;"
    [] c = "<" -> "&lt;"
    [] c = ">" -> "&gt;"
    [] c = "\"" -> "&quot;"
    [] c = "'" -> "&apos;"
    [] OTHER -> c

\* s with each character replaced once by its entity
Escaped(s) == ConcatAll([i \in 1..Len(s) |-> Entity(Char(s, i))], 1, Len(s))

\* the text of s between the first open at or after position i and the
\* close that follows it
Between(s, open, close, i) ==
  LET b == FindLit(s, open, i) + Len(open)
  IN SubSeq(s, b, FindLit(s, close, b) - 1)

\* the positions of s where the literal lit occurs
Positions(s, lit) == { p \in 1..Len(s) : HasAt(s, p, lit) }

\* the <trkpt> elements of s from position i on, as written
RECURSIVE ReadTrkpts(_, _)
ReadTrkpts(s, i) ==
  LET p == FindLit(s, "<trkpt ", i)
  IN IF p = 0 THEN <<>>
     ELSE <<[lat |-> Between(s, " lat=\"", "\"", p),
             lon |-> Between(s, " lon=\"", "\"", p),
             name |-> Between(s, "<name>", "</name>", p)]>>
          \o ReadTrkpts(s, FindLit(s, "</trkpt>", p))

\* the <name> of the <trk> of s
ReadTrackName(s) == Between(s, "<name>", "</name>", FindLit(s, "<trk>", 1))

Provided == "customRouteName" \in DOMAIN args

\* C8 as stated: the <trk> <name> is the escaped nameOverride whenever one is
\* provided, the empty string included, and the route's own routeName only
\* when none is provided.
C8_OverrideWheneverProvided ==
  pc = "returned" =>
    ReadTrackName(gpx) =
      Escaped(IF Provided THEN args.customRouteName ELSE routeData.routeName)

\* C8 amended: the <trk> <name> is the escaped nameOverride when a non-empty
\* one is provided, and the route's own routeName when none is provided or
\* the one provided is the empty string.
C8_OverrideWhenNonEmpty ==
  pc = "returned" =>
    ReadTrackName(gpx) =
      Escaped(IF Provided /\ args.customRouteName # ""
              THEN args.customRouteName ELSE routeData.routeName)

\* an override with reserved characters, written in place of the route name
C8_Witness ==
  /\ pc = "returned"
  /\ Provided
  /\ args.customRouteName # ""
  /\ ReadTrackName(gpx) = "R&amp;D&apos;s &quot;Trip&quot; &lt;1&gt;"
  /\ ReadTrackName(gpx) # Escaped(routeData.routeName)

WaypointLabels == <<"Waypoint 1", "Waypoint 2", "Waypoint 3", "Waypoint 4">>

\* one <trkseg>, and in it one <trkpt> per waypoint, in order, with the
\* waypoint's lat and lng and the name given by Named(k)
TrackPoints(Named(_)) ==
  LET read == ReadTrkpts(gpx, 1)
      wps == routeData.waypoints
      segOpen == Positions(gpx, "<trkseg>")
      segClose == Positions(gpx, "</trkseg>")
      ptOpen == Positions(gpx, "<trkpt ")
      ptClose == Positions(gpx, "</trkpt>")
  IN /\ Cardinality(segOpen) = 1
     /\ Cardinality(segClose) = 1
     /\ Cardinality(ptOpen) = Len(wps)
     /\ Cardinality(ptClose) = Len(wps)
     /\ \A p \in ptOpen \cup ptClose :
          \A o \in segOpen, c \in segClose : o < p /\ p < c
     /\ Len(read) = Len(wps)
     /\ \A k \in 1..Len(wps) :
          /\ NumEnd(read[k].lat, 1) = Len(read[k].lat) + 1
          /\ parseFloat(read[k].lat) = wps[k].lat
          /\ NumEnd(read[k].lon, 1) = Len(read[k].lon) + 1
          /\ parseFloat(read[k].lon) = wps[k].lng
          /\ read[k].name = Escaped(Named(k))

\* the waypoint's own name, "Waypoint <k>" when it has no name field
NameIfPresent(k) ==
  IF "name" \in DOMAIN routeData.waypoints[k]
  THEN routeData.waypoints[k].name ELSE WaypointLabels[k]

\* the waypoint's own name, "Waypoint <k>" when it has none or an empty one
NameIfNonEmpty(k) ==
  IF "name" \in DOMAIN routeData.waypoints[k]
     /\ routeData.waypoints[k].name # ""
  THEN routeData.waypoints[k].name ELSE WaypointLabels[k]

\* C9 as stated: the output has one <trkseg> holding one <trkpt> per
\* waypoint, in input order, with lat and lon the waypoint's lat and lng and
\* a <name> that is the waypoint's own escaped name, or "Waypoint <k>"
\* (k from 1) when the waypoint has no name.
C9_TrkptPerWaypoint == pc = "returned" => TrackPoints(NameIfPresent)

\* C9 amended: as stated, but the <name> is "Waypoint <k>" also when the
\* waypoint's name is the empty string.
C9_TrkptPerWaypointNonEmpty == pc = "returned" => TrackPoints(NameIfNonEmpty)

\* two waypoints, the first with a name, the second without
C9_Witness ==
  /\ pc = "returned"
  /\ Len(routeData.waypoints) = 2
  /\ "name" \in DOMAIN routeData.waypoints[1]
  /\ "name" \notin DOMAIN routeData.waypoints[2]
  /\ ReadTrkpts(gpx, 1)[1].name = "Sydney"
  /\ ReadTrkpts(gpx, 1)[2].name = "Waypoint 2"
  /\ ReadTrkpts(gpx, 1)[2].lat = "-37.8"

\* C10: escapeXml turns each '&', '<', '>', '"', "'" of its argument into
\* its entity exactly once ('&' into "&amp;", never "&amp;amp;"; the '&' of
\* the other entities is left alone), and its result has no raw '<', '>',
\* '"' or "'".
C10_EscapedOnce ==
  (pc = "escapeXml" /\ passes = Len(Replacements)) =>
    /\ text = Escaped(str)
    /\ \A k \in 1..Len(text) : Char(text, k) \notin {"<", ">", "\"", "'"}

\* an ampersand next to a bracket
C10_Witness ==
  /\ pc = "escapeXml"
  /\ passes = Len(Replacements)
  /\ str = "&<"
  /\ text = "&amp;&lt;"

\* the character an entity of XML text stands for
EntityChar(e) ==
  CASE e = "&amp;" -> "&"
    [] e = "&lt;" -> "<"
    [] e = "&gt;" -> ">"
    [] e = "&quot;" -> "\""
    [] e = "&apos;" -> "'"
    [] OTHER -> e

\* the position of the '&' that opens the entity reference position i of s
\* lies in, 0 when i lies in none
EntityStart(s, i) ==
  LET amps == { j \in 1..i : Char(s, j) = "&" }
      last == IF amps = {} THEN 0 ELSE CHOOSE j \in amps : \A k \in amps : k <= j
  IN IF last = 0 THEN 0
     ELSE IF \E k \in last..(i - 1) : Char(s, k) = ";" THEN 0
     ELSE last

\* XML text as a reader hands it on: each entity reference read once
Unescape(s) ==
  ConcatAll([i \in 1..Len(s) |->
               IF Char(s, i) = "&" /\ FindChar(s, ";", i) # 0
               THEN EntityChar(SubSeq(s, i, FindChar(s, ";", i)))
               ELSE IF EntityStart(s, i) # 0 /\ FindChar(s, ";", i) # 0
               THEN ""
               ELSE Char(s, i)],
            1, Len(s))

\* the <trkpt> elements of the output as a reader hands them on
ReadBack ==
  LET read == ReadTrkpts(gpx, 1)
  IN [k \in 1..Len(read) |->
        [lat |-> parseFloat(read[k].lat), lon |-> parseFloat(read[k].lon),
         name |-> Unescape(read[k].name)]]

\* the waypoints handed in, a waypoint without a name having the name ""
Triples ==
  [k \in 1..Len(routeData.waypoints) |->
     [lat |-> routeData.waypoints[k].lat, lon |-> routeData.waypoints[k].lng,
      name |-> NameOr(routeData.waypoints[k], "")]]

\* the waypoints handed in, a waypoint without a name or with the name ""
\* having the name "Waypoint <k>"
TriplesLabelled ==
  [k \in 1..Len(routeData.waypoints) |->
     [lat |-> routeData.waypoints[k].lat, lon |-> routeData.waypoints[k].lng,
      name |-> NameIfNonEmpty(k)]]

\* C11 as stated: unescaping and reading back the <trkpt> elements of the
\* output gives the (lat, lon, name) triples of the input waypoints, in
\* order, also for waypoints whose name is absent or empty.
C11_RoundTrip == pc = "returned" => ReadBack = Triples

\* C11 amended: unescaping and reading back the <trkpt> elements of the
\* output gives the lat and lon of the input waypoints, in order, and the
\* name of each waypoint that has a non-empty one, reserved characters
\* included; a waypoint without a name or with an empty one reads back as
\* "Waypoint <k>".
C11_RoundTripLabelled == pc = "returned" => ReadBack = TriplesLabelled

\* a name with the five reserved characters and a waypoint without a name
C11_Witness ==
  /\ pc = "returned"
  /\ Len(routeData.waypoints) = 2
  /\ "name" \in DOMAIN routeData.waypoints[1]
  /\ routeData.waypoints[1].name = "Tom & \"Jerry's\" <b>"
  /\ "name" \notin DOMAIN routeData.waypoints[2]
  /\ ReadTrkpts(gpx, 1)[1].name # routeData.waypoints[1].name
  /\ ReadBack[1].name = routeData.waypoints[1].name
  /\ ReadBack[2].name = "Waypoint 2"

\* ------------------------------------------------------------------------
\* slugify
\* ------------------------------------------------------------------------
UpperCase == "ABCDEFGHIJKLMNOPQRSTUVWXYZ"
LowerCase == "abcdefghijklmnopqrstuvwxyz"

\* String.prototype.toLowerCase (ASCII part)
toLowerCase(s) ==
  ConcatAll([i \in 1..Len(s) |->
               IF IndexIn(UpperCase, Char(s, i)) > 0
               THEN Char(LowerCase, IndexIn(UpperCase, Char(s, i)))
               ELSE Char(s, i)],
            1, Len(s))

\* a character of the class \w
IsWord(c) == IsAlpha(c) \/ IsDigit(c) \/ c = "_"

\* a character of the class [\s_-]
IsSeparator(c) == IsSpace(c) \/ c = "_" \/ c = "-"

\* .replace(/[^\w\s-]/g, "")
RemoveSpecial(s) ==
  ConcatAll([i \in 1..Len(s) |->
               IF IsWord(Char(s, i)) \/ IsSpace(Char(s, i)) \/ Char(s, i) = "-"
               THEN Char(s, i) ELSE ""],
            1, Len(s))

\* CollapseRuns without the +: a hyphen for every character of a run
CollapseEach(s) ==
  ConcatAll([i \in 1..Len(s) |->
               IF IsSeparator(Char(s, i)) THEN "-" ELSE Char(s, i)],
            1, Len(s))

\* .replace(/[\s_-]+/g, "-"): one hyphen where a run starts, nothing for the
\* rest of the run
CollapseRuns(s) ==
  ConcatAll([i \in 1..Len(s) |->
               IF ~IsSeparator(Char(s, i)) THEN Char(s, i)
               ELSE IF i > 1 /\ IsSeparator(Char(s, i - 1)) THEN ""
               ELSE "-"],
            1, Len(s))

\* TrimHyphens without the second alternative: the leading hyphens only
TrimHyphensLeading(s) ==
  LET other == { i \in 1..Len(s) : Char(s, i) # "-" }
  IN IF other = {} THEN "" ELSE SubSeq(s, Min(other), Len(s))

\* .replace(/^-+|-+$/g, "")
TrimHyphens(s) ==
  LET other == { i \in 1..Len(s) : Char(s, i) # "-" }
  IN IF other = {} THEN ""
     ELSE SubSeq(s, Min(other), CHOOSE i \in other : \A j \in other : j <= i)

\* the first n calls of the chain of slugify made on s
SlugChain(s, n) ==
  LET s1 == toLowerCase(s)
      s2 == Trim(s1)
      s3 == RemoveSpecial(s2)
      s4 == CollapseRuns(s3)
      s5 == TrimHyphens(s4)
  IN <<s, s1, s2, s3, s4, s5>>[n + 1]

slugify(s) == SlugChain(s, 5)

\* the next call of the chain: toLowerCase, trim, or one of the replaces
SlugCall ==
  /\ pc = "slugify"
  /\ slugStep < 5
  /\ slugStep' = slugStep + 1
  /\ slug' = CASE slugStep = 0 -> toLowerCase(slug)
               [] slugStep = 1 -> Trim(slug)
               [] slugStep = 2 -> RemoveSpecial(slug)
               [] slugStep = 3 -> CollapseRuns(slug)
               [] slugStep = 4 -> TrimHyphens(slug)
  /\ UNCHANGED <<pc, slugText>>
  /\ UNCHANGED <<parseVars, gpxVars, escVars, fileVars, cliVars, proxyVars>>

\* ------------------------------------------------------------------------
\* Inputs of slugify
\* ------------------------------------------------------------------------
\* longest text enumerated for slugify
MaxTextLen == 3

\* a capital, a small letter, a digit, the three separators and a special
SlugAlphabet == {"A", "b", "1", " ", "_", "-", "!"}

\* route names as a user types them
SlugExamples == {"Weekend Trip!", "  A -- B  ", "\tTo_the - Caf\"e 2\n"}

SlugTexts ==
  { ConcatAll(q, 1, Len(q)) : q \in SeqsUpTo(SlugAlphabet, MaxTextLen) }
  \cup SlugExamples

IdleExtract ==
  /\ input = <<>>
  /\ url = ""
  /\ waypoints = <<>>
  /\ locationNames = <<>>
  /\ dataParam = <<>>
  /\ validWaypoints = <<>>
  /\ routeName = DefaultRouteName
  /\ err = "none"

IdleGpx == routeData = NoRouteData /\ args = <<>> /\ index = 0 /\ gpx = ""

IdleEscape == str = "" /\ text = "" /\ passes = 0

InitSlug ==
  /\ slugText \in SlugTexts
  /\ slug = slugText
  /\ slugStep = 0
  /\ pc = "slugify"
  /\ IdleFile
  /\ IdleCli
  /\ IdleProxy
  /\ IdleExtract
  /\ IdleGpx
  /\ IdleEscape

NextSlug == SlugCall

SpecSlug == InitSlug /\ [][NextSlug]_vars

\* ------------------------------------------------------------------------
\* Properties of slugify (SpecSlug)
\* ------------------------------------------------------------------------
IsAlnum(c) == IsAlpha(c) \/ IsDigit(c)

\* the letters, digits and separators of s, the letters in lower case
KeptChars(s) ==
  SelectSeq([i \in 1..Len(s) |-> Char(toLowerCase(s), i)],
            LAMBDA c : IsAlnum(c) \/ IsSeparator(c))

\* the words of s: the maximal runs of letters and digits among KeptChars
SlugWords(s) ==
  LET k == KeptChars(s)
      starts == { i \in 1..Len(k) :
                    IsAlnum(k[i]) /\ (i = 1 \/ IsSeparator(k[i - 1])) }
      EndOf(i) == Min({ j \in i..Len(k) :
                          j = Len(k) \/ IsSeparator(k[j + 1]) })
      Nth(n) == CHOOSE i \in starts :
                  Cardinality({ j \in starts : j < i }) = n - 1
  IN [n \in 1..Cardinality(starts) |->
        ConcatAll(k, Nth(n), EndOf(Nth(n)))]

\* the strings of ws with a hyphen between each two
JoinHyphen(ws) ==
  ConcatAll([n \in 1..Len(ws) |-> IF n = 1 THEN ws[n] ELSE "-" \o ws[n]],
            1, Len(ws))

\* C12: slugify(text) is text lowercased, trimmed, without the characters
\* that are neither word characters nor whitespace nor hyphens, with every
\* maximal run of whitespace, underscores and hyphens turned into one hyphen
\* and without leading and trailing hyphens: the words of the text joined
\* by single hyphens; 'Weekend Trip!' gives 'weekend-trip' and '  A -- B  '
\* gives 'a-b'.
C12_Slugify ==
  /\ (pc = "slugify" /\ slugStep = 5) =>
       /\ slug = JoinHyphen(SlugWords(slugText))
       /\ slugText = "Weekend Trip!" => slug = "weekend-trip"
       /\ slugText = "  A -- B  " => slug = "a-b"
  /\ pc = "slugify" => slug = SlugChain(slugText, slugStep)

\* a run of three separators between two words, and a special character
C12_Witness ==
  /\ pc = "slugify"
  /\ slugStep = 5
  /\ slugText = "\tTo_the - Caf\"e 2\n"
  /\ slug = "to-the-cafe-2"

\* ------------------------------------------------------------------------
\* getTimestamp and generateOutputFilename
\* ------------------------------------------------------------------------
\* PadStart leaving the string as it is
PadStartNever(s, n, fill) == s

\* s.padStart(n, fill) for a one-character fill
RECURSIVE PadStart(_, _, _)
PadStart(s, n, fill) ==
  IF Len(s) >= n THEN s ELSE PadStart(fill \o s, n, fill)

\* the string getTimestamp returns for the local time d
getTimestamp(d) ==
  LET year == NatToStr(d.year)
      month == PadStart(NatToStr(d.month + 1), 2, "0")
      day == PadStart(NatToStr(d.date), 2, "0")
      hours == PadStart(NatToStr(d.hours), 2, "0")
      minutes == PadStart(NatToStr(d.minutes), 2, "0")
      seconds == PadStart(NatToStr(d.seconds), 2, "0")
  IN year \o month \o day \o "-" \o hours \o minutes \o seconds

\* the string generateOutputFilename returns; if (routeName) is false for
\* undefined and for ""
generateOutputFilename(name, stamp) ==
  IF name # <<>> /\ name[1] # ""
  THEN slugify(name[1]) \o "-" \o stamp \o ".gpx"
  ELSE "route-" \o stamp \o ".gpx"

\* const timestamp = getTimestamp()
GetTimestamp ==
  /\ pc = "generateOutputFilename"
  /\ pc' = "timestamp"
  /\ timestamp' = getTimestamp(now)
  /\ UNCHANGED <<now, nameArg, filename>>
  /\ UNCHANGED <<parseVars, gpxVars, escVars, slugVars, cliVars, proxyVars>>

\* if (routeName) return ...; return ...
ReturnFilename ==
  /\ pc = "timestamp"
  /\ pc' = "filename"
  /\ filename' = generateOutputFilename(nameArg, timestamp)
  /\ UNCHANGED <<now, nameArg, timestamp>>
  /\ UNCHANGED <<parseVars, gpxVars, escVars, slugVars, cliVars, proxyVars>>

\* ------------------------------------------------------------------------
\* Inputs of generateOutputFilename
\* ------------------------------------------------------------------------
\* local times with one and with two digits in every field
Dates ==
  [year : {2024, 2026}, month : {0, 11}, date : {1, 31},
   hours : {0, 23}, minutes : {5, 59}, seconds : {0, 9}]

\* not given, empty, with an empty slug, and two names
NameArgs ==
  {<<>>, <<"">>, <<"!!!">>, <<"Weekend Trip!">>, <<"Sydney to Big Sur!">>}

InitFilename ==
  /\ now \in Dates
  /\ nameArg \in NameArgs
  /\ timestamp = ""
  /\ filename = ""
  /\ pc = "generateOutputFilename"
  /\ IdleSlug
  /\ IdleCli
  /\ IdleProxy
  /\ IdleExtract
  /\ IdleGpx
  /\ IdleEscape

NextFilename ==
  \/ GetTimestamp
  \/ ReturnFilename

SpecFilename == InitFilename /\ [][NextFilename]_vars

\* ------------------------------------------------------------------------
\* Properties of generateOutputFilename (SpecFilename)
\* ------------------------------------------------------------------------
\* the last w decimal digits of n
Digits(n, w) ==
  ConcatAll([k \in 1..w |-> Char(DigitTable, ((n \div Pow10(w - k)) % 10) + 1)],
            1, w)

\* the local time d as YYYYMMDD-HHMMSS with every field at its full width
Stamp(d) ==
  Digits(d.year, 4) \o Digits(d.month + 1, 2) \o Digits(d.date, 2) \o "-"
  \o Digits(d.hours, 2) \o Digits(d.minutes, 2) \o Digits(d.seconds, 2)

\* C13 as stated: the file name is '<slugify(name)>-<timestamp>.gpx' for
\* every name given, the empty string and the names with an empty slug
\* included, and 'route-<timestamp>.gpx' when no name is given, <timestamp>
\* being the local time as zero-padded YYYYMMDD-HHMMSS.
C13_SlugWheneverGiven ==
  pc = "filename" =>
    filename =
      (IF nameArg # <<>> THEN JoinHyphen(SlugWords(nameArg[1])) \o "-"
       ELSE "route-") \o Stamp(now) \o ".gpx"

\* C13 amended: the file name is '<slugify(name)>-<timestamp>.gpx' for every
\* non-empty name given, the names with an empty slug included, and
\* 'route-<timestamp>.gpx' when no name is given or the name given is the
\* empty string.
C13_SlugWhenNonEmpty ==
  pc = "filename" =>
    filename =
      (IF nameArg # <<>> /\ nameArg[1] # ""
       THEN JoinHyphen(SlugWords(nameArg[1])) \o "-"
       ELSE "route-") \o Stamp(now) \o ".gpx"

\* a name with an empty slug, at a time with one-digit fields
C13_Witness ==
  /\ pc = "filename"
  /\ nameArg = <<"!!!">>
  /\ now.month = 0
  /\ filename = "-20240101-000500.gpx"

\* ------------------------------------------------------------------------
\* expandUrl, convertToGpx and the two main functions
\* ------------------------------------------------------------------------
\* String.prototype.includes
Includes(s, lit) == FindLit(s, lit, 1) # 0

\* url.includes("goo.gl") || url.includes("maps.app.goo.gl")
IsShortened(u) == Includes(u, "goo.gl") \/ Includes(u, "maps.app.goo.gl")

\* error.message of the errors thrown
ErrorMessage(e) ==
  CASE e = "ExtractionError" ->
         "Could not extract coordinates from the Google Maps URL. "
         \o "The URL format may not be supported or the route data is not accessible."
    [] e = "TypeError" -> "Invalid URL"
    [] e = "NetworkError" -> "error sending request"
    [] e = "URIError" -> "URI malformed"

\* the entry points with a command line
IsMain == entry \in {"main", "main.single"}

\* if (args.help || args.h) { printUsage(); Deno.exit(0) }
ShowHelp ==
  /\ pc = "main"
  /\ cliArgs.help
  /\ pc' = "exited"
  /\ exitCode' = <<0>>
  /\ UNCHANGED <<entry, cliArgs, outputPath, fullUrl, network, fetched,
                 files, stderr>>
  /\ UNCHANGED <<parseVars, gpxVars, escVars, slugVars, fileVars, proxyVars>>

\* if (!url) { console.error(...); printUsage(); Deno.exit(1) }
NoUrl ==
  /\ pc = "main"
  /\ ~cliArgs.help
  /\ Falsy(cliArgs.url)
  /\ pc' = "exited"
  /\ stderr' = Append(stderr, "Error: No Google Maps URL provided.")
  /\ exitCode' = <<1>>
  /\ UNCHANGED <<entry, cliArgs, outputPath, fullUrl, network, fetched, files>>
  /\ UNCHANGED <<parseVars, gpxVars, escVars, slugVars, fileVars, proxyVars>>

\* the single-file main: if (!outputPath) { console.error(...); Deno.exit(1) }
NoOutput ==
  /\ pc = "main"
  /\ entry = "main.single"
  /\ ~cliArgs.help
  /\ ~Falsy(cliArgs.url)
  /\ Falsy(cliArgs.output)
  /\ pc' = "exited"
  /\ stderr' = Append(stderr,
       "Error: No output file specified. Use -o <path> to specify output file.")
  /\ exitCode' = <<1>>
  /\ UNCHANGED <<entry, cliArgs, outputPath, fullUrl, network, fetched, files>>
  /\ UNCHANGED <<parseVars, gpxVars, escVars, slugVars, fileVars, proxyVars>>

\* SetOutputPath with the generated name even when -o is there
SetOutputPathGenerated ==
  /\ pc = "main"
  /\ ~cliArgs.help
  /\ ~Falsy(cliArgs.url)
  /\ entry = "main.single" => ~Falsy(cliArgs.output)
  /\ pc' = "try"
  /\ timestamp' = getTimestamp(now)
  /\ filename' = generateOutputFilename(cliArgs.name, timestamp')
  /\ outputPath' = filename'
  /\ UNCHANGED <<entry, cliArgs, fullUrl, network, fetched, files, stderr,
                 exitCode>>
  /\ UNCHANGED <<now, nameArg>>
  /\ UNCHANGED <<parseVars, gpxVars, escVars, slugVars, proxyVars>>

\* const outputPath = customOutput || generateOutputFilename(routeName);
\* in the single-file main, const outputPath = args.output || args.o
SetOutputPath ==
  /\ pc = "main"
  /\ ~cliArgs.help
  /\ ~Falsy(cliArgs.url)
  /\ entry = "main.single" => ~Falsy(cliArgs.output)
  /\ pc' = "try"
  /\ IF ~Falsy(cliArgs.output)
     THEN /\ outputPath' = cliArgs.output[1]
          /\ UNCHANGED <<timestamp, filename>>
     ELSE /\ timestamp' = getTimestamp(now)
          /\ filename' = generateOutputFilename(cliArgs.name, timestamp')
          /\ outputPath' = filename'
  /\ UNCHANGED <<entry, cliArgs, fullUrl, network, fetched, files, stderr,
                 exitCode>>
  /\ UNCHANGED <<now, nameArg>>
  /\ UNCHANGED <<parseVars, gpxVars, escVars, slugVars, proxyVars>>

\* fullUrl = await expandUrl(url): one fetch, which throws or gives the URL
\* of the response it ended at
ExpandShortened ==
  /\ pc \in {"try", "convertToGpx"}
  /\ IsShortened(cliArgs.url[1])
  /\ fetched' = Append(fetched, cliArgs.url[1])
  /\ CASE network.status = "down" ->
            pc' = "failed" /\ err' = "NetworkError" /\ fullUrl' = fullUrl
       [] network.status = "stay" ->
            pc' = "expanded" /\ err' = err /\ fullUrl' = cliArgs.url[1]
       [] network.status = "moved" ->
            pc' = "expanded" /\ err' = err /\ fullUrl' = network.location
  /\ UNCHANGED <<entry, cliArgs, outputPath, network, files, stderr, exitCode>>
  /\ UNCHANGED <<input, url, waypoints, locationNames, dataParam,
                 validWaypoints, routeName>>
  /\ UNCHANGED <<gpxVars, escVars, slugVars, fileVars, proxyVars>>

\* let fullUrl = url, the if not taken
KeepUrl ==
  /\ pc \in {"try", "convertToGpx"}
  /\ ~IsShortened(cliArgs.url[1])
  /\ pc' = "expanded"
  /\ fullUrl' = cliArgs.url[1]
  /\ UNCHANGED <<entry, cliArgs, outputPath, network, fetched, files, stderr,
                 exitCode>>
  /\ UNCHANGED <<parseVars, gpxVars, escVars, slugVars, fileVars, proxyVars>>

\* const routeData = parseGoogleMapsUrl(fullUrl): the call
CallParse ==
  /\ pc = "expanded"
  /\ pc' = "start"
  /\ url' = fullUrl
  /\ UNCHANGED <<input, waypoints, locationNames, dataParam, validWaypoints,
                 routeName, err>>
  /\ UNCHANGED <<gpxVars, escVars, slugVars, fileVars, cliVars, proxyVars>>

\* generateGpx(routeData, routeName): the call; the single-file main passes
\* the RouteData only
CallGenerateGpx ==
  /\ pc = "done"
  /\ pc' = "generate"
  /\ routeData' = [waypoints |-> validWaypoints, routeName |-> routeName]
  /\ args' = IF cliArgs.name = <<>> THEN <<>>
             ELSE [customRouteName |-> cliArgs.name[1]]
  /\ index' = 0
  /\ gpx' = ""
  /\ UNCHANGED <<parseVars, escVars, slugVars, fileVars, cliVars, proxyVars>>

\* await Deno.writeTextFile(outputPath, gpxContent), and main returns
WriteTextFile ==
  /\ pc = "returned"
  /\ IsMain
  /\ pc' = "exited"
  /\ files' = files \cup {[path |-> outputPath, content |-> gpx]}
  /\ exitCode' = <<0>>
  /\ UNCHANGED <<entry, cliArgs, outputPath, fullUrl, network, fetched, stderr>>
  /\ UNCHANGED <<parseVars, gpxVars, escVars, slugVars, fileVars, proxyVars>>

\* CatchError leaving with the code of a run that went well
CatchErrorExitZero ==
  /\ pc = "failed"
  /\ IsMain
  /\ pc' = "exited"
  /\ stderr' = Append(stderr, "Error: " \o ErrorMessage(err))
  /\ exitCode' = <<0>>
  /\ UNCHANGED <<entry, cliArgs, outputPath, fullUrl, network, fetched, files>>
  /\ UNCHANGED <<parseVars, gpxVars, escVars, slugVars, fileVars, proxyVars>>

\* catch (error) { console.error(`Error: ${error.message}`); Deno.exit(1) }
CatchError ==
  /\ pc = "failed"
  /\ IsMain
  /\ pc' = "exited"
  /\ stderr' = Append(stderr, "Error: " \o ErrorMessage(err))
  /\ exitCode' = <<1>>
  /\ UNCHANGED <<entry, cliArgs, outputPath, fullUrl, network, fetched, files>>
  /\ UNCHANGED <<parseVars, gpxVars, escVars, slugVars, fileVars, proxyVars>>

\* convertToGpx: const suggestedFilename = generateOutputFilename(
\* options.routeName || routeData.routeName); return {...}
ReturnConverted ==
  /\ pc = "returned"
  /\ entry = "convertToGpx"
  /\ pc' = "resolved"
  /\ timestamp' = getTimestamp(now)
  /\ filename' = generateOutputFilename(
       IF ~Falsy(cliArgs.name) THEN cliArgs.name ELSE <<routeData.routeName>>,
       timestamp')
  /\ UNCHANGED <<now, nameArg>>
  /\ UNCHANGED <<parseVars, gpxVars, escVars, slugVars, cliVars, proxyVars>>

\* convertToGpx: the error leaves the function, the promise is rejected
RejectConverted ==
  /\ pc = "failed"
  /\ entry = "convertToGpx"
  /\ pc' = "rejected"
  /\ UNCHANGED <<parseVars, gpxVars, escVars, slugVars, fileVars, cliVars, proxyVars>>

\* ------------------------------------------------------------------------
\* Inputs of the entry points
\* ------------------------------------------------------------------------
ShortUrls == {"https://maps.app.goo.gl/abc", "https://goo.gl/maps/xyz"}

\* full map URLs: with coordinates, with names only, with the text goo.gl
\* in the query, and with a broken percent escape
FullUrls ==
  {"https://www.google.com/maps/dir/-37.8,144.9/51.5,-0.1",
   "https://www.google.com/maps/dir/Sydney/Melbourne",
   "https://www.google.com/maps/dir/-37.8,144.9/51.5,-0.1?ref=goo.gl",
   "https://www.google.com/maps/dir/50%/Sydney/@-33.8,151.2,10z"}

\* what the user may type as the first argument
TypedUrls == ShortUrls \cup FullUrls \cup {"maps"}

\* the request fails, ends where it started, or ends at another URL
Networks ==
  [status : {"down", "stay"}, location : {""}]
  \cup [status : {"moved"},
        location : {"https://www.google.com/maps/dir/-37.8,144.9/51.5,-0.1",
                    "https://www.google.com/maps/dir/Sydney/Melbourne"}]

\* the values of -o and of -n
TypedOutputs == {<<>>, <<"">>, <<"out.gpx">>}
TypedNames == {<<>>, <<"">>, <<"Weekend Trip!">>}

\* the parsed command line of the main with lib.ts, of the single-file main
\* (which has no -n), and the arguments of convertToGpx
Invocations ==
  [entry : {"main"}, help : {FALSE}, url : Optional(TypedUrls),
   output : TypedOutputs, name : TypedNames]
  \cup [entry : {"main.single"}, help : {FALSE}, url : Optional(TypedUrls),
        output : TypedOutputs, name : {<<>>}]
  \cup [entry : {"main", "main.single"}, help : {TRUE},
        url : {<<>>, <<"https://goo.gl/maps/xyz">>},
        output : {<<>>}, name : {<<>>}]
  \cup [entry : {"convertToGpx"}, help : {FALSE},
        url : { <<u>> : u \in TypedUrls },
        output : {<<>>}, name : TypedNames]

InitCli ==
  /\ cliArgs \in Invocations
  /\ entry = cliArgs.entry
  /\ pc = IF entry = "convertToGpx" THEN "convertToGpx" ELSE "main"
  /\ network \in Networks
  /\ now = [year |-> 2026, month |-> 10, date |-> 2,
            hours |-> 9, minutes |-> 5, seconds |-> 0]
  /\ outputPath = ""
  /\ fullUrl = ""
  /\ fetched = <<>>
  /\ files = {}
  /\ stderr = <<>>
  /\ exitCode = <<>>
  /\ nameArg = <<>>
  /\ timestamp = ""
  /\ filename = ""
  /\ IdleSlug
  /\ IdleProxy
  /\ IdleExtract
  /\ IdleGpx
  /\ IdleEscape

NextCli ==
  \/ ShowHelp
  \/ NoUrl
  \/ NoOutput
  \/ SetOutputPath
  \/ ExpandShortened
  \/ KeepUrl
  \/ CallParse
  \/ NewURL
  \/ Strategy1
  \/ GetDataParam
  \/ Strategy2
  \/ Strategy3
  \/ FilterValid
  \/ NameRoute
  \/ CallGenerateGpx
  \/ WriteHead
  \/ WriteTrkpt
  \/ WriteTail
  \/ WriteTextFile
  \/ CatchError
  \/ ReturnConverted
  \/ RejectConverted

SpecCli == InitCli /\ [][NextCli]_vars

\* ------------------------------------------------------------------------
\* The parts of new URL(u): protocol, hostname, pathname
\* ------------------------------------------------------------------------
\* least i >= from whose character is in stops, Len(u) + 1 when there is none
FirstOf(u, stops, from) ==
  Min({ i \in from..Len(u) : Char(u, i) \in stops } \cup {Len(u) + 1})

\* the scheme with its colon, in lower case
Protocol(u) == toLowerCase(SubSeq(u, 1, FindChar(u, ":", 1)))

\* where the authority starts: after the colon and the slashes that follow
AuthorityStart(u) ==
  LET c == FindChar(u, ":", 1)
      slashes == { n \in 0..(Len(u) - c) :
                     \A i \in (c + 1)..(c + n) : Char(u, i) \in {"/", "\\"} }
  IN c + 1 + CHOOSE n \in slashes : \A m \in slashes : m <= n

\* where the authority ends: at the first '/', '\', '?' or '#'
AuthorityEnd(u) == FirstOf(u, {"/", "\\", "?", "#"}, AuthorityStart(u))

\* the authority without its userinfo: what follows the last '@'
HostAndPort(u) ==
  LET a == SubSeq(u, AuthorityStart(u), AuthorityEnd(u) - 1)
      ats == { i \in 1..Len(a) : Char(a, i) = "@" }
  IN IF ats = {} THEN a
     ELSE SubSeq(a, (CHOOSE i \in ats : \A j \in ats : j <= i) + 1, Len(a))

\* the host without its port, in lower case
Hostname(u) ==
  toLowerCase(SubSeq(HostAndPort(u), 1, FindChar(HostAndPort(u), ":", 1) - 1))

\* the path: from the end of the authority to the '?' or '#', "/" when empty
Pathname(u) ==
  LET p == SubSeq(u, AuthorityEnd(u), FirstOf(u, {"?", "#"}, AuthorityEnd(u)) - 1)
  IN IF p = "" THEN "/" ELSE p

\* ------------------------------------------------------------------------
\* Properties of the entry points (SpecCli)
\* ------------------------------------------------------------------------
\* the URL the entry point was called with
GivenUrl == cliArgs.url[1]

\* the serializer has returned a whole document for the waypoints extracted
Serialized ==
  /\ pc = "returned"
  /\ err = "none"
  /\ validWaypoints # <<>>
  /\ routeData = [waypoints |-> validWaypoints, routeName |-> routeName]
  /\ Len(ReadTrkpts(gpx, 1)) = Len(validWaypoints)
  /\ HasAt(gpx, Len(gpx) - Len(GpxTail) + 1, GpxTail)

\* C14: in every run of a main, the output file is written only after the
\* resolution of the URL, the extraction and the serialization have all
\* succeeded, and it holds the whole document; when the resolution or the
\* extraction fails, no file is written, an error message goes to stderr
\* and the process exits with a code other than 0.
C14_WriteAfterSuccess ==
  /\ [][files' # files =>
          /\ Serialized
          /\ url = fullUrl
          /\ IsShortened(GivenUrl) =>
               fetched = <<GivenUrl>> /\ network.status # "down"
          /\ files' = {[path |-> outputPath, content |-> gpx]}]_vars
  /\ [](err # "none" =>
          /\ files = {}
          /\ (IsMain /\ pc = "exited") =>
               /\ stderr = <<"Error: " \o ErrorMessage(err)>>
               /\ exitCode # <<>>
               /\ exitCode[1] # 0)
  /\ [](files # {} => exitCode = <<0>> /\ stderr = <<>>)

\* a short link resolved to a URL of place names only: the extraction
\* fails, the main reports it and leaves no file
C14_Witness ==
  /\ entry = "main"
  /\ pc = "exited"
  /\ fetched = <<"https://maps.app.goo.gl/abc">>
  /\ network.status = "moved"
  /\ err = "ExtractionError"
  /\ files = {}
  /\ Len(stderr) = 1
  /\ exitCode = <<1>>

\* u is a URL whose host is one of the two hosts of shortened links
HasShortHost(u) ==
  IF ValidURL(u) THEN Hostname(u) \in {"goo.gl", "maps.app.goo.gl"} ELSE FALSE

\* C15: expandUrl is called only for the input URLs whose host is goo.gl or
\* maps.app.goo.gl; for every other input URL, also one with the text
\* goo.gl in its path or query, no fetch is made and the URL is parsed as
\* given.
C15_FetchOnlyShortHosts ==
  /\ fetched # <<>> => HasShortHost(GivenUrl)
  /\ (pc = "start" /\ ~HasShortHost(GivenUrl))
       => fetched = <<>> /\ url = GivenUrl

\* C16: a conversion makes one fetch at most, and a fetch that fails or
\* that ends at the shortened link it started from is reported to the
\* caller as an error of the resolution: the URL is not handed to the
\* extraction.
C16_OneFetchNoMasking ==
  /\ Len(fetched) <= 1
  /\ (fetched # <<>> /\ network.status \in {"down", "stay"}) =>
       /\ pc \in {"failed", "exited", "rejected"}
       /\ err = "NetworkError"
       /\ url = ""

\* the path C20 names for the run, an option counting as given when
\* IsGiven holds of it
NamedPath(IsGiven(_)) ==
  IF IsGiven(cliArgs.output) THEN cliArgs.output[1]
  ELSE IF IsGiven(cliArgs.name)
  THEN JoinHyphen(SlugWords(cliArgs.name[1])) \o "-" \o Stamp(now) \o ".gpx"
  ELSE "route-" \o Stamp(now) \o ".gpx"

\* the main with lib.ts has got past its arguments and has not failed
RunsWell == entry = "main" /\ ~cliArgs.help /\ ~Falsy(cliArgs.url) /\ err = "none"

\* the file of NamedPath is the one written, and the run does not end
\* without it
WritesTo(IsGiven(_)) ==
  RunsWell =>
    /\ pc # "main" => outputPath = NamedPath(IsGiven)
    /\ pc = "exited" =>
         /\ files = {[path |-> NamedPath(IsGiven), content |-> gpx]}
         /\ exitCode = <<0>>
    /\ stderr = <<>>

MaxPending == 1

\* times the clock of the proxy is seen to advance
MaxTicks == 1

\* requests a caller sends beyond RATE_LIMIT_MAX_REQUESTS
MaxOver == 1

\* ------------------------------------------------------------------------
\* The expandUrl proxy: rate limiter, URL validation, handler
\* ------------------------------------------------------------------------
RATE_LIMIT_WINDOW_MS == 60 * 1000

RATE_LIMIT_MAX_REQUESTS == 20

\* the size of the store above which a call of the limiter prunes it
PruneSize == 10000

\* the greatest length of the url parameter that is let through
MaxUrlLength == 500

\* map.set(k, v)
MapSet(map, k, v) ==
  IF k \in DOMAIN map THEN [map EXCEPT ![k] = v] ELSE (k :> v) @@ map

\* Pruned removing the records of the callers that have used up a window
PrunedUsedUp(store, t) ==
  IF Cardinality(DOMAIN store) > PruneSize
  THEN [k \in { x \in DOMAIN store :
                  /\ ~(t - store[x].windowStart > RATE_LIMIT_WINDOW_MS)
                  /\ store[x].count < RATE_LIMIT_MAX_REQUESTS }
          |-> store[k]]
  ELSE store

\* the store after the clean-up of isRateLimited
Pruned(store, t) ==
  IF Cardinality(DOMAIN store) > PruneSize
  THEN [k \in { x \in DOMAIN store :
                  ~(t - store[x].windowStart > RATE_LIMIT_WINDOW_MS) }
          |-> store[k]]
  ELSE store

\* IsRateLimited turning a caller away only above the maximum
IsRateLimitedAbove(store, ip, t) ==
  LET kept == Pruned(store, t)
  IN IF ip \notin DOMAIN store
     THEN [limited |-> FALSE,
           store |-> MapSet(kept, ip, [windowStart |-> t, count |-> 1])]
     ELSE IF t - store[ip].windowStart > RATE_LIMIT_WINDOW_MS
     THEN [limited |-> FALSE,
           store |-> MapSet(kept, ip, [windowStart |-> t, count |-> 1])]
     ELSE IF store[ip].count > RATE_LIMIT_MAX_REQUESTS
     THEN [limited |-> TRUE, store |-> kept]
     ELSE [limited |-> FALSE,
           store |-> MapSet(kept, ip, [windowStart |-> store[ip].windowStart,
                                       count |-> store[ip].count + 1])]

\* isRateLimited(ip) at time t: the value returned and the store it leaves;
\* the record is read before the clean-up
IsRateLimited(store, ip, t) ==
  LET kept == Pruned(store, t)
  IN IF ip \notin DOMAIN store
     THEN [limited |-> FALSE,
           store |-> MapSet(kept, ip, [windowStart |-> t, count |-> 1])]
     ELSE IF t - store[ip].windowStart > RATE_LIMIT_WINDOW_MS
     THEN [limited |-> FALSE,
           store |-> MapSet(kept, ip, [windowStart |-> t, count |-> 1])]
     ELSE IF store[ip].count >= RATE_LIMIT_MAX_REQUESTS
     THEN [limited |-> TRUE, store |-> kept]
     ELSE [limited |-> FALSE,
           store |-> MapSet(kept, ip, [windowStart |-> store[ip].windowStart,
                                       count |-> store[ip].count + 1])]

\* IsValidGoogleMapsShortUrl with a substring test of the host
IsValidGoogleMapsShortUrlSubstring(urlString) ==
  IF ~ValidURL(urlString) THEN FALSE
  ELSE IF Protocol(urlString) # "https:" THEN FALSE
  ELSE IF ~Includes(Hostname(urlString), "goo.gl") THEN FALSE
  ELSE IF Pathname(urlString) = "/" THEN FALSE
  ELSE TRUE

IsValidGoogleMapsShortUrl(urlString) ==
  IF ~ValidURL(urlString) THEN FALSE
  ELSE IF Protocol(urlString) # "https:" THEN FALSE
  ELSE IF Hostname(urlString) \notin {"goo.gl", "maps.app.goo.gl"} THEN FALSE
  ELSE IF Pathname(urlString) = "/" THEN FALSE
  ELSE TRUE

\* IsValidGoogleMapsUrl without the test of the path
IsValidGoogleMapsUrlAnyPath(urlString) ==
  IF ~ValidURL(urlString) THEN FALSE
  ELSE IF Protocol(urlString) # "https:" THEN FALSE
  ELSE IF Hostname(urlString)
            \notin {"www.google.com", "google.com", "maps.google.com"}
  THEN FALSE
  ELSE TRUE

IsValidGoogleMapsUrl(urlString) ==
  IF ~ValidURL(urlString) THEN FALSE
  ELSE IF Protocol(urlString) # "https:" THEN FALSE
  ELSE IF Hostname(urlString)
            \notin {"www.google.com", "google.com", "maps.google.com"}
  THEN FALSE
  ELSE IF ~HasAt(Pathname(urlString), 1, "/maps") THEN FALSE
  ELSE TRUE

\* the x-forwarded-for headers the callers send
ForwardedHeaders == {" 203.0.113.7 , 10.0.0.1", "203.0.113.7"}

\* the first entry of each of them, trimmed, worked out once
FirstHop == [h \in ForwardedHeaders |-> Trim(Split(h, ",")[1])]

\* req.get('x-forwarded-for')?.split(',')[0]?.trim() || req.get('x-real-ip')
\* || req.ip || 'unknown'
ClientIp(r) ==
  IF r.forwardedFor # <<>> /\ FirstHop[r.forwardedFor[1]] # ""
  THEN FirstHop[r.forwardedFor[1]]
  ELSE IF ~Falsy(r.realIp) THEN r.realIp[1]
  ELSE IF ~Falsy(r.ip) THEN r.ip[1]
  ELSE "unknown"

\* req.query.url is undefined when the query has no url, a string when it
\* has one, an array of strings when it has several; here the sequence of
\* the values given.  !shortUrl:
NoShortUrl(q) == IF q = <<>> THEN TRUE ELSE q = <<"">>

\* shortUrl.length: the characters of a string, the elements of an array
LengthOf(q) == IF Len(q) = 1 THEN Len(q[1]) ELSE Len(q)

\* the string new URL(shortUrl) and fetch(shortUrl) make of shortUrl: the
\* elements of an array joined by commas
StringOf(q) ==
  ConcatAll([k \in 1..Len(q) |-> IF k = 1 THEN q[k] ELSE "," \o q[k]],
            1, Len(q))

\* the string s written n times
Repeat(s, n) == ConcatAll([k \in 1..n |-> s], 1, n)

\* a short link of MaxUrlLength characters, and one that is longer
LongestUrl ==
  "https://Maps.App.Goo.gl/"
  \o Repeat("a", MaxUrlLength - Len("https://Maps.App.Goo.gl/"))

TooLongUrl == "https://goo.gl/" \o Repeat("a", MaxUrlLength)

\* the values of the url parameter: none, empty, short links, and the ways
\* of not being a short link
UrlParameters ==
  {<<>>, <<"">>,
   <<"https://goo.gl/maps/xyz">>,
   <<LongestUrl>>,
   <<TooLongUrl>>,
   <<TooLongUrl, "x">>,
   <<"http://goo.gl/maps/xyz">>,
   <<"https://goo.gl/">>,
   <<"https://evil.goo.gl/abc">>,
   <<"https://goo.gl.evil.com/abc">>,
   <<"https://goo.gl@evil.com/abc">>,
   <<"https://evil.com/goo.gl/abc">>,
   <<"maps.app.goo.gl/abc">>}

\* where a short link may lead
FinalUrls ==
  {"https://www.google.com/maps/dir/Sydney/Melbourne",
   "https://GOOGLE.com/maps",
   "http://www.google.com/maps/dir/Sydney/Melbourne",
   "https://consent.google.com/m?continue=https://www.google.com/maps",
   "https://www.google.com.evil.com/maps",
   "https://www.google.com/search?q=maps",
   "https://goo.gl/maps/xyz"}

\* isValidGoogleMapsShortUrl(shortUrl) for each url parameter, worked out once
ShortUrlVerdict ==
  [q \in UrlParameters |->
     IF q = <<>> THEN FALSE ELSE IsValidGoogleMapsShortUrl(StringOf(q))]

\* isValidGoogleMapsUrl(expandedUrl) for each place a short link may lead to
FinalUrlVerdict == [f \in FinalUrls |-> IsValidGoogleMapsUrl(f)]

Json(key, value) == << <<key, value>> >>

NoResponse == [status |-> 0, body |-> <<>>]

\* Handler turning away, whatever the time, a caller whose record is full
HandlerFullRecord(r, store, t) ==
  LET lim == IsRateLimited(store, ClientIp(r), t)
      Answer(st, body, counted) ==
        [res |-> [status |-> st, body |-> body], fetch |-> FALSE,
         store |-> IF counted THEN lim.store ELSE store,
         admitted |-> counted /\ ~lim.limited]
  IN IF r.method = "OPTIONS" THEN Answer(204, <<>>, FALSE)
     ELSE IF r.method # "GET"
     THEN Answer(405, Json("error", "Method not allowed"), FALSE)
     ELSE IF lim.limited
             \/ (ClientIp(r) \in DOMAIN store
                   /\ store[ClientIp(r)].count >= RATE_LIMIT_MAX_REQUESTS)
     THEN Answer(429, Json("error",
                   "Too many requests. Please try again later."), TRUE)
     ELSE IF NoShortUrl(r.url)
     THEN Answer(400, Json("error", "Missing url parameter"), TRUE)
     ELSE IF LengthOf(r.url) > MaxUrlLength
     THEN Answer(400, Json("error", "URL too long"), TRUE)
     ELSE IF ~ShortUrlVerdict[r.url]
     THEN Answer(400, Json("error",
                   "Only Google Maps shortened URLs (goo.gl, maps.app.goo.gl) are supported"),
                 TRUE)
     ELSE [res |-> NoResponse, fetch |-> TRUE, store |-> lim.store,
           admitted |-> TRUE]

\* the handler up to its await or to the response it sends: the response
\* (NoResponse when the fetch is started), the store left, and whether the
\* limiter let the request through
Handler(r, store, t) ==
  LET lim == IsRateLimited(store, ClientIp(r), t)
      Answer(st, body, counted) ==
        [res |-> [status |-> st, body |-> body], fetch |-> FALSE,
         store |-> IF counted THEN lim.store ELSE store,
         admitted |-> counted /\ ~lim.limited]
  IN IF r.method = "OPTIONS" THEN Answer(204, <<>>, FALSE)
     ELSE IF r.method # "GET"
     THEN Answer(405, Json("error", "Method not allowed"), FALSE)
     ELSE IF lim.limited
     THEN Answer(429, Json("error",
                   "Too many requests. Please try again later."), TRUE)
     ELSE IF NoShortUrl(r.url)
     THEN Answer(400, Json("error", "Missing url parameter"), TRUE)
     ELSE IF LengthOf(r.url) > MaxUrlLength
     THEN Answer(400, Json("error", "URL too long"), TRUE)
     ELSE IF ~ShortUrlVerdict[r.url]
     THEN Answer(400, Json("error",
                   "Only Google Maps shortened URLs (goo.gl, maps.app.goo.gl) are supported"),
                 TRUE)
     ELSE [res |-> NoResponse, fetch |-> TRUE, store |-> lim.store,
           admitted |-> TRUE]

\* the requests of ip let through in the window that holds t, t included
Count(p, ip, t) ==
  IF ip \notin DOMAIN p THEN [from |-> t, n |-> 1]
  ELSE IF p[ip].from <= t /\ t <= p[ip].from + RATE_LIMIT_WINDOW_MS
  THEN [from |-> p[ip].from, n |-> p[ip].n + 1]
  ELSE [from |-> t, n |-> 1]

\* no fetch has ended for the request answered last
NoOutcome == [threw |-> FALSE, url |-> ""]

\* the request r arrives and the handler runs up to its await or response
Handle(r) ==
  \E out \in {Handler(r, rateLimitStore, clock)} :
     /\ out.fetch => BagCardinality(pending) < MaxPending
     /\ req' = r
     /\ res' = out.res
     /\ rateLimitStore' = out.store
     /\ pending' = IF out.fetch THEN pending (+) SetToBag({r}) ELSE pending
     /\ outcome' = NoOutcome
     /\ passed' = IF out.admitted
                  THEN MapSet(passed, ClientIp(r),
                              Count(passed, ClientIp(r), clock))
                  ELSE passed

\* a caller sends one of the requests of the traffic, any number of times
HandleRequest ==
  /\ pc = "serving"
  /\ \E r \in traffic : Handle(r)
  /\ UNCHANGED <<pc, clock, ticks, traffic, web>>
  /\ UNCHANGED <<parseVars, gpxVars, escVars, slugVars, fileVars, cliVars>>

\* a caller sends one of the requests it has left to send
HandleQueued ==
  /\ pc = "queue"
  /\ \E r \in BagToSet(traffic) :
       /\ Handle(r)
       /\ traffic' = traffic (-) SetToBag({r})
  /\ UNCHANGED <<pc, clock, ticks, web>>
  /\ UNCHANGED <<parseVars, gpxVars, escVars, slugVars, fileVars, cliVars>>

\* an awaited fetch ends at the URL f: const expandedUrl = response.url, and
\* the rest of the try block
FetchResolved ==
  /\ pc \in {"serving", "queue"}
  /\ \E r \in BagToSet(pending), f \in web :
       /\ req' = r
       /\ pending' = pending (-) SetToBag({r})
       /\ outcome' = [threw |-> FALSE, url |-> f]
       /\ res' = IF FinalUrlVerdict[f]
                 THEN [status |-> 200, body |-> Json("url", f)]
                 ELSE [status |-> 400,
                       body |-> Json("error",
                         "URL did not resolve to a valid Google Maps URL")]
  /\ UNCHANGED <<pc, rateLimitStore, clock, ticks, traffic, web, passed>>
  /\ UNCHANGED <<parseVars, gpxVars, escVars, slugVars, fileVars, cliVars>>

\* FetchThrew giving back to the caller the request that failed
FetchThrewGivingBack ==
  /\ pc \in {"serving", "queue"}
  /\ \E r \in BagToSet(pending) :
       /\ req' = r
       /\ pending' = pending (-) SetToBag({r})
       /\ outcome' = [threw |-> TRUE, url |-> ""]
       /\ res' = [status |-> 500, body |-> Json("error", "Failed to expand URL")]
       /\ rateLimitStore' =
            IF ClientIp(r) \in DOMAIN rateLimitStore
            THEN [rateLimitStore EXCEPT ![ClientIp(r)].count = @ - 1]
            ELSE rateLimitStore
  /\ UNCHANGED <<pc, clock, ticks, traffic, web, passed>>
  /\ UNCHANGED <<parseVars, gpxVars, escVars, slugVars, fileVars, cliVars>>

\* an awaited fetch throws: the catch block
FetchThrew ==
  /\ pc \in {"serving", "queue"}
  /\ \E r \in BagToSet(pending) :
       /\ req' = r
       /\ pending' = pending (-) SetToBag({r})
       /\ outcome' = [threw |-> TRUE, url |-> ""]
       /\ res' = [status |-> 500, body |-> Json("error", "Failed to expand URL")]
  /\ UNCHANGED <<pc, rateLimitStore, clock, ticks, traffic, web, passed>>
  /\ UNCHANGED <<parseVars, gpxVars, escVars, slugVars, fileVars, cliVars>>

\* time passes: the length of a window, or a millisecond more
Tick ==
  /\ pc = "queue"
  /\ ticks < MaxTicks
  /\ ticks' = ticks + 1
  /\ \E d \in {RATE_LIMIT_WINDOW_MS, RATE_LIMIT_WINDOW_MS + 1} :
       clock' = clock + d
  /\ UNCHANGED <<pc, rateLimitStore, traffic, web, req, res, pending, passed,
                 outcome>>
  /\ UNCHANGED <<parseVars, gpxVars, escVars, slugVars, fileVars, cliVars>>

\* ------------------------------------------------------------------------
\* Callers of the proxy
\* ------------------------------------------------------------------------
Request(method, forwardedFor, realIp, q) ==
  [method |-> method, forwardedFor |-> forwardedFor, realIp |-> realIp,
   ip |-> <<"10.0.0.1">>, url |-> q]

\* one caller behind a chain of proxies, sending every kind of request
ProbeRequests ==
  { Request("GET", <<" 203.0.113.7 , 10.0.0.1">>, <<>>, q) :
      q \in UrlParameters }
  \cup { Request(m, <<" 203.0.113.7 , 10.0.0.1">>, <<>>,
                 <<"https://goo.gl/maps/xyz">>) : m \in {"OPTIONS", "POST"} }

\* two callers, told apart by x-forwarded-for and by x-real-ip: the first
\* sends more requests than the limiter lets through, the second two
LoadRequests ==
  LET first == Request("GET", <<"203.0.113.7">>, <<>>,
                       <<"https://goo.gl/maps/xyz">>)
      second == Request("GET", <<>>, <<"198.51.100.2">>,
                        <<"https://goo.gl/maps/xyz">>)
  IN [r \in {first, second} |->
        IF r = first THEN RATE_LIMIT_MAX_REQUESTS + MaxOver ELSE 2]

NoRequest == Request("", <<>>, <<>>, <<>>)

\* a new instance
InitProxy ==
  /\ rateLimitStore = <<>>
  /\ clock = 0
  /\ ticks = 0
  /\ req = NoRequest
  /\ res = NoResponse
  /\ pending = EmptyBag
  /\ passed = <<>>
  /\ outcome = NoOutcome
  /\ IdleSlug
  /\ IdleFile
  /\ IdleCli
  /\ IdleExtract
  /\ IdleGpx
  /\ IdleEscape

\* one caller sending every kind of request within one window
InitProbe ==
  /\ InitProxy
  /\ pc = "serving"
  /\ traffic = ProbeRequests
  /\ web = FinalUrls

NextProxy ==
  \/ HandleRequest
  \/ FetchResolved
  \/ FetchThrew

SpecProxy == InitProbe /\ [][NextProxy]_vars

\* two callers, each with the requests it is going to send, over several
\* windows
InitLoad ==
  /\ InitProxy
  /\ pc = "queue"
  /\ traffic = LoadRequests
  /\ web = {"https://www.google.com/maps/dir/Sydney/Melbourne"}

NextLimiter ==
  \/ HandleQueued
  \/ FetchResolved
  \/ FetchThrew
  \/ Tick

SpecLimiter == InitLoad /\ [][NextLimiter]_vars

\* ------------------------------------------------------------------------
\* Properties of the proxy (SpecProxy, SpecLimiter)
\* ------------------------------------------------------------------------
\* this step starts a fetch / ends one / answers a request without a fetch
FetchStarts == BagCardinality(pending') > BagCardinality(pending)

FetchEnds == BagCardinality(pending') < BagCardinality(pending)

\* the caller of r has used up its window at time t
UsedUp(store, r, t) ==
  IF ClientIp(r) \notin DOMAIN store THEN FALSE
  ELSE /\ t - store[ClientIp(r)].windowStart <= RATE_LIMIT_WINDOW_MS
       /\ store[ClientIp(r)].count >= RATE_LIMIT_MAX_REQUESTS

\* u is https, its host is one of hosts and nothing else, its path not "/"
ShortLink(u) ==
  IF ~ValidURL(u) THEN FALSE
  ELSE /\ HasAt(u, 1, "https://")
       /\ Hostname(u) \in {"goo.gl", "maps.app.goo.gl"}
       /\ Pathname(u) # "/"

\* C17: the handler starts the fetch only for a GET that was not
\* rate-limited and carries a url of at most 500 characters that is https,
\* on the host goo.gl or maps.app.goo.gl exactly, with a path other than
\* the root; every other request is answered 204, 405, 429 or 400 and no
\* fetch is started.
C17_FetchOnlyValidated ==
  [][ /\ FetchStarts =>
           /\ req'.method = "GET"
           /\ ~UsedUp(rateLimitStore, req', clock)
           /\ req'.url # <<>>
           /\ Len(StringOf(req'.url)) <= MaxUrlLength
           /\ ShortLink(StringOf(req'.url))
      /\ ~FetchStarts /\ ~FetchEnds => res'.status \in {204, 405, 429, 400}
    ]_vars

\* the same with the length the handler compares: the characters of a url
\* given once, the number of values of a url given several times
C17_FetchOnlyMeasured ==
  [][ /\ FetchStarts =>
           /\ req'.method = "GET"
           /\ ~UsedUp(rateLimitStore, req', clock)
           /\ req'.url # <<>>
           /\ LengthOf(req'.url) <= MaxUrlLength
           /\ ShortLink(StringOf(req'.url))
      /\ ~FetchStarts /\ ~FetchEnds => res'.status \in {204, 405, 429, 400}
    ]_vars

\* a fetch is awaited for a url of more than 500 characters
C17_LongUrlFetched ==
  \E r \in BagToSet(pending) : Len(StringOf(r.url)) > MaxUrlLength

\* u is https, on one of the three hosts of Google Maps, under /maps
MapsPage(u) ==
  IF ~ValidURL(u) THEN FALSE
  ELSE /\ HasAt(u, 1, "https://")
       /\ Hostname(u) \in {"www.google.com", "google.com", "maps.google.com"}
       /\ HasAt(Pathname(u), 1, "/maps")

\* the body is an error object that holds none of the URLs a link leads to
Undisclosed(body) ==
  /\ Len(body) = 1
  /\ body[1][1] = "error"
  /\ \A f \in web : ~Includes(body[1][2], f)

\* C18: the answer is 200 only when the resolved URL is https, on
\* www.google.com, google.com or maps.google.com exactly, with a path that
\* starts with /maps, and its body is then the object whose sole field url
\* holds the resolved URL; a resolved URL that fails the test is answered
\* 400 and a fetch that throws 500, neither disclosing a resolved URL.
C18_OnlyMapsPages ==
  /\ res.status = 200 =>
       /\ ~outcome.threw
       /\ MapsPage(outcome.url)
       /\ res.body = << <<"url", outcome.url>> >>
  /\ outcome.url # "" /\ ~MapsPage(outcome.url) =>
       /\ res.status = 400
       /\ Undisclosed(res.body)
  /\ outcome.threw =>
       /\ res.status = 500
       /\ Undisclosed(res.body)

\* a link that leads to Google Maps, host written in capitals, is answered
C18_Witness ==
  /\ res = [status |-> 200, body |-> << <<"url", "https://GOOGLE.com/maps">> >>]
  /\ outcome.url = "https://GOOGLE.com/maps"
  /\ req.method = "GET"

\* the records of the limiter agree with the requests let through, and
\* neither counts more than RATE_LIMIT_MAX_REQUESTS in a window
WithinMax ==
  /\ \A ip \in DOMAIN rateLimitStore :
       /\ 1 <= rateLimitStore[ip].count
       /\ rateLimitStore[ip].count <= RATE_LIMIT_MAX_REQUESTS
       /\ ip \in DOMAIN passed
       /\ passed[ip].from = rateLimitStore[ip].windowStart
       /\ passed[ip].n = rateLimitStore[ip].count
  /\ \A ip \in DOMAIN passed : passed[ip].n <= RATE_LIMIT_MAX_REQUESTS
  /\ res.status = 429 =>
       /\ ClientIp(req) \in DOMAIN rateLimitStore
       /\ rateLimitStore[ClientIp(req)].count = RATE_LIMIT_MAX_REQUESTS
       /\ outcome = NoOutcome

\* a request that arrives in a window used up is answered 429, starts no
\* fetch and leaves the records alone
FurtherRefused ==
  traffic' # traffic /\ UsedUp(rateLimitStore, req', clock) =>
    /\ res'.status = 429
    /\ pending' = pending
    /\ rateLimitStore' = rateLimitStore

\* C19: for each caller, whatever the order in which requests arrive and
\* awaited fetches end, at most RATE_LIMIT_MAX_REQUESTS requests pass the
\* limiter within the window that starts at the caller's windowStart:
\* every record has 1 <= count <= RATE_LIMIT_MAX_REQUESTS, the requests let
\* through in a window are as many as the record counts, and a request
\* that arrives in a window used up is answered 429 without a fetch.
C19_AtMostMaxPerWindow == []WithinMax /\ [][FurtherRefused]_vars

\* the first caller is refused at the end of a later window, with its 20
\* requests counted, while a fetch is awaited and the second caller has
\* a window of its own
C19_Witness ==
  /\ res.status = 429
  /\ req.forwardedFor = <<"203.0.113.7">>
  /\ rateLimitStore["203.0.113.7"].count = RATE_LIMIT_MAX_REQUESTS
  /\ clock - rateLimitStore["203.0.113.7"].windowStart = RATE_LIMIT_WINDOW_MS
  /\ pending # EmptyBag
  /\ "198.51.100.2" \in DOMAIN rateLimitStore

\* ------------------------------------------------------------------------
\* Properties of Strategy 1 (SpecExtract)
\* ------------------------------------------------------------------------
\* what the segments of a /dir/ path are written for: the place a name
\* segment names, the point a coordinate segment gives
SegName(seg) ==
  CASE seg.str = "Sydney" -> "Sydney"
    [] seg.str = "Big+Sur%21" -> "Big Sur!"

SegPoint(seg) ==
  CASE seg.str = "51.5,-0.1" ->
         [lat |-> 51 * Scale + 5 * (Scale \div 10), lng |-> -(Scale \div 10)]

SegNames(segs) ==
  LET ks == { k \in 1..Len(segs) : segs[k].kind = "name" }
  IN [n \in 1..Cardinality(ks) |->
        SegName(segs[CHOOSE k \in ks :
                       Cardinality({ j \in ks : j <= k }) = n])]

SegPoints(segs) ==
  LET ks == { k \in 1..Len(segs) : segs[k].kind = "coord" }
  IN [n \in 1..Cardinality(ks) |->
        SegPoint(segs[CHOOSE k \in ks :
                        Cardinality({ j \in ks : j <= k }) = n])]

\* Strategy 1 has just run over a /dir/ URL whose segments can be decoded
AfterStrategy1 ==
  /\ pc = "data"
  /\ input.kind = "dir"
  /\ \A k \in 1..Len(input.segs) : input.segs[k].kind # "bad"

\* C21: Strategy 1 takes the segments between '/maps/dir/' and the next
\* '@', and nothing else: each '<lat>,<lng>' segment is an unnamed
\* waypoint, each other segment is decoded and appended to locationNames in
\* order; a data= segment or the query is never taken as a place name,
\* also when the URL has no '@'.
C21_DirSegments ==
  AfterStrategy1 =>
    /\ waypoints = SegPoints(input.segs)
    /\ locationNames = SegNames(input.segs)

\* the same for the URLs in which an '@' marker ends the segments, or that
\* have neither a data parameter nor a query
C21_DirSegmentsBeforeAt ==
  AfterStrategy1 /\ (input.at # <<>> \/ input.placement = "none") =>
    /\ waypoints = SegPoints(input.segs)
    /\ locationNames = SegNames(input.segs)

\* a /dir/ URL without '@': its data segment is the last place name
C21_DataTakenAsName ==
  /\ AfterStrategy1
  /\ input.at = <<>>
  /\ input.placement = "path"
  /\ Len(locationNames) = Len(SegNames(input.segs)) + 1
  /\ HasAt(locationNames[Len(locationNames)], 1, "data=")

\* ------------------------------------------------------------------------
\* The limiter with a table above the size at which it is pruned
\* ------------------------------------------------------------------------
\* the address of the k-th of the callers served before
Caller(k) == "192.0.2." \o ToString(k)

\* the last digit of an address
LastDigit(ip) == DigitVal(Char(ip, Len(ip)))

\* the table at time RATE_LIMIT_WINDOW_MS + 1 of an instance that has served
\* n callers: a third of them in a window started at 0 (expired), a third
\* at 1 (in its last millisecond), a third just now; the caller 203.0.113.7
\* has used up a window started at 1, the caller 198.51.100.2 has just sent
\* its first request
ServedStore(n) ==
  [ip \in { Caller(k) : k \in 1..(n - 2) }
            \cup {"203.0.113.7", "198.51.100.2"} |->
     IF ip = "203.0.113.7"
     THEN [windowStart |-> 1, count |-> RATE_LIMIT_MAX_REQUESTS]
     ELSE IF ip = "198.51.100.2"
     THEN [windowStart |-> RATE_LIMIT_WINDOW_MS + 1, count |-> 1]
     ELSE [windowStart |-> CASE LastDigit(ip) % 3 = 0 -> 0
                             [] LastDigit(ip) % 3 = 1 -> 1
                             [] OTHER -> RATE_LIMIT_WINDOW_MS + 1,
           count |-> 1 + LastDigit(ip)]]

\* the requests to come: a GET of the caller that has used up its window,
\* and of the other caller a preflight, a POST and a GET without the url
\* parameter
ServedRequests ==
  LET again == Request("GET", <<"203.0.113.7">>, <<>>,
                       <<"https://goo.gl/maps/xyz">>)
      other == { Request("OPTIONS", <<>>, <<"198.51.100.2">>, <<>>),
                 Request("POST", <<>>, <<"198.51.100.2">>,
                         <<"https://goo.gl/maps/xyz">>),
                 Request("GET", <<>>, <<"198.51.100.2">>, <<>>) }
  IN [r \in {again} \cup other |-> 1]

\* an instance whose table holds PruneSize entries, or one more
InitServed ==
  /\ \E n \in {PruneSize, PruneSize + 1} : rateLimitStore = ServedStore(n)
  /\ passed = [ip \in {"203.0.113.7", "198.51.100.2"} |->
                 [from |-> rateLimitStore[ip].windowStart,
                  n |-> rateLimitStore[ip].count]]
  /\ clock = RATE_LIMIT_WINDOW_MS + 1
  /\ ticks = 0
  /\ req = NoRequest
  /\ res = NoResponse
  /\ pending = EmptyBag
  /\ outcome = NoOutcome
  /\ pc = "queue"
  /\ traffic = ServedRequests
  /\ web = {"https://www.google.com/maps/dir/Sydney/Melbourne",
            "https://www.google.com/search?q=maps"}
  /\ IdleSlug
  /\ IdleFile
  /\ IdleCli
  /\ IdleExtract
  /\ IdleGpx
  /\ IdleEscape

SpecPrune == InitServed /\ [][NextLimiter]_vars

\* ------------------------------------------------------------------------
\* Properties of the table of the limiter (SpecPrune)
\* ------------------------------------------------------------------------
\* the window of the record rec has expired at time t
Expired(rec, t) == t - rec.windowStart > RATE_LIMIT_WINDOW_MS

\* this step is a call of the limiter: a GET request arrives
LimiterCall == traffic' # traffic /\ req'.method = "GET"

\* the table after the step is the table before it but for the record of
\* the caller: nothing is removed, no other record is touched
OnlyCallerSet ==
  /\ ClientIp(req') \in DOMAIN rateLimitStore'
  /\ rateLimitStore' = MapSet(rateLimitStore, ClientIp(req'),
                              rateLimitStore'[ClientIp(req')])

\* C22: the table is pruned only by a call of the limiter made while it
\* holds more than PruneSize entries; a prune removes the entries whose
\* window has expired and no other (the caller's own expired record is
\* replaced by a new one), leaves every record in its window as it was but
\* for the count of the caller, and does not let a caller through that has
\* used up its window.
C22_PruneOnlyExpired ==
  [][ /\ rateLimitStore' # rateLimitStore => LimiterCall
      /\ (rateLimitStore' # rateLimitStore
            /\ Cardinality(DOMAIN rateLimitStore) <= PruneSize) => OnlyCallerSet
      /\ (LimiterCall /\ Cardinality(DOMAIN rateLimitStore) > PruneSize) =>
           /\ DOMAIN rateLimitStore' =
                { ip \in DOMAIN rateLimitStore :
                    ~Expired(rateLimitStore[ip], clock) } \cup {ClientIp(req')}
           /\ \A ip \in DOMAIN rateLimitStore' \ {ClientIp(req')} :
                rateLimitStore'[ip] = rateLimitStore[ip]
      /\ (LimiterCall /\ UsedUp(rateLimitStore, req', clock)) =>
           /\ res'.status = 429
           /\ rateLimitStore'[ClientIp(req')] = rateLimitStore[ClientIp(req')]
    ]_vars

\* a call by the caller that has used up its window has pruned the table:
\* it was answered 429, its record is as it was, the expired records are
\* gone and records in their last millisecond are still there
C22_Witness ==
  /\ res.status = 429
  /\ req.forwardedFor = <<"203.0.113.7">>
  /\ rateLimitStore["203.0.113.7"] =
       [windowStart |-> 1, count |-> RATE_LIMIT_MAX_REQUESTS]
  /\ Cardinality(DOMAIN rateLimitStore) < PruneSize
  /\ Caller(3) \notin DOMAIN rateLimitStore
  /\ Caller(1) \in DOMAIN rateLimitStore
  /\ clock - rateLimitStore[Caller(1)].windowStart = RATE_LIMIT_WINDOW_MS

\* ------------------------------------------------------------------------
\* A caller that keeps asking
\* ------------------------------------------------------------------------
\* the requests of one caller: as many as a window lets through, the
\* requests beyond, and one more
RetryRequests ==
  LET r == Request("GET", <<"203.0.113.7">>, <<>>,
                   <<"https://goo.gl/maps/xyz">>)
  IN [x \in {r} |-> RATE_LIMIT_MAX_REQUESTS + MaxOver + 1]

InitRetry ==
  /\ InitProxy
  /\ pc = "queue"
  /\ traffic = RetryRequests
  /\ web = {"https://www.google.com/maps/dir/Sydney/Melbourne"}

\* the caller sends the requests it has left, and the fetches awaited end:
\* the event loop runs every handler that is ready
SpecRecover ==
  /\ InitRetry
  /\ [][NextLimiter]_vars
  /\ WF_vars(HandleQueued)
  /\ WF_vars(FetchResolved \/ FetchThrew)

\* a call of the limiter by a caller without a record, or with a record
\* whose window has expired, opens a window and is let through
NewWindow ==
  LimiterCall /\ (IF ClientIp(req') \in DOMAIN rateLimitStore
                  THEN Expired(rateLimitStore[ClientIp(req')], clock)
                  ELSE TRUE) =>
    /\ res'.status # 429
    /\ rateLimitStore'[ClientIp(req')] = [windowStart |-> clock, count |-> 1]

\* the caller was answered 429 last, its window has expired since, and it
\* has a request left to send
LimitedAndDue ==
  /\ res.status = 429
  /\ ClientIp(req) \in DOMAIN rateLimitStore
  /\ rateLimitStore[ClientIp(req)].count = RATE_LIMIT_MAX_REQUESTS
  /\ Expired(rateLimitStore[ClientIp(req)], clock)
  /\ req \in BagToSet(traffic)

\* the caller has been let through as the first of a window
AdmittedAgain ==
  /\ res.status # 429
  /\ ClientIp(req) \in DOMAIN rateLimitStore
  /\ rateLimitStore[ClientIp(req)] = [windowStart |-> clock, count |-> 1]
  /\ clock > 0

\* C23: the window is fixed and always recovers: the first request of a
\* caller that arrives more than RATE_LIMIT_WINDOW_MS after its windowStart
\* opens a window (windowStart = now, count = 1) and is let through,
\* whatever the count was, so no caller is limited on the first request of
\* a window; and a caller answered 429 is let through again once time has
\* advanced past its window and it asks again.
C23_WindowRecovers == [][NewWindow]_vars /\ (LimitedAndDue ~> AdmittedAgain)

\* the caller was let through after a 429: 20 requests, one refused, the
\* clock moved by more than a window, one more request
C23_Witness ==
  /\ AdmittedAgain
  /\ passed[ClientIp(req)].n = 1
  /\ BagCardinality(traffic) < MaxOver + 1
  /\ BagCardinality(pending) = 1

\* ------------------------------------------------------------------------
\* Names of the data waypoints that pass the filter (SpecExtract)
\* ------------------------------------------------------------------------
\* the positions, in the data parameter, of the pairs that are not (0, 0)
KeptPairs ==
  { k \in 1..Len(input.pairs) :
      input.pairs[k].lat.val # 0 \/ input.pairs[k].lng.val # 0 }

\* the place of pair k among the pairs that are not (0, 0)
Rank(k) == Cardinality({ i \in KeptPairs : i <= k })

\* the name of pair k of n, given while every pair is in the list
PositionName(k, n) ==
  IF k <= Len(locationNames) THEN locationNames[k]
  ELSE IF k = 1 THEN "Start"
  ELSE IF k = n THEN "End"
  ELSE ViaLabels[k - 1]

\* C24: the data waypoints are named by their position among all the pairs
\* of the data parameter, before the (0,0) filter: a pair that is kept
\* carries the name of the position it had (when the first pair is (0,0)
\* the first waypoint returned carries locationNames[1], counted from 0, or
\* the label made for position 1, never locationNames[0]); the route name
\* is still made of locationNames[0] and the last name; the waypoints
\* returned are the named list with the (0,0) entries left out.
C24_NamesByPosition ==
  (pc \in {"name", "done"} /\ HasDataPairs) =>
    /\ Len(validWaypoints) = Cardinality(KeptPairs)
    /\ \A k \in KeptPairs :
         validWaypoints[Rank(k)] =
           [lat |-> input.pairs[k].lat.val,
            lng |-> input.pairs[k].lng.val,
            name |-> PositionName(k, Len(input.pairs))]
    /\ \A k \in KeptPairs : validWaypoints[Rank(k)] = waypoints[k]
    /\ (pc = "done" /\ Len(locationNames) >= 2) =>
         routeName = locationNames[1] \o " to "
                       \o locationNames[Len(locationNames)]

\* the first pair is (0, 0): the only waypoint returned has the second
\* name, and the route is named from the first
C24_Witness ==
  /\ pc = "done"
  /\ HasDataPairs
  /\ 1 \notin KeptPairs
  /\ locationNames = <<"Sydney", "Big Sur!">>
  /\ Len(validWaypoints) = 1
  /\ validWaypoints[1].name = "Big Sur!"
  /\ routeName = "Sydney to Big Sur!"

\* the first pair is (0, 0) and there is one place name: the first waypoint
\* returned has the label made for its position
C24_WitnessLabel ==
  /\ pc = "done"
  /\ HasDataPairs
  /\ 1 \notin KeptPairs
  /\ locationNames = <<"Sydney">>
  /\ validWaypoints[1].name = "End"

\* ------------------------------------------------------------------------
\* The shape of a slug (SpecSlug)
\* ------------------------------------------------------------------------
\* a lower-case ASCII letter or a digit
IsSlugChar(c) == IndexIn(LowerCase, c) > 0 \/ IsDigit(c)

\* letters and digits with single hyphens between them, or nothing
SlugShaped(s) ==
  /\ \A i \in 1..Len(s) : IsSlugChar(Char(s, i)) \/ Char(s, i) = "-"
  /\ \A i \in 1..Len(s) : Char(s, i) # "_"
  /\ \A i \in 1..Len(s) - 1 : ~(Char(s, i) = "-" /\ Char(s, i + 1) = "-")
  /\ Len(s) > 0 => Char(s, 1) # "-" /\ Char(s, Len(s)) # "-"

\* C25: the result of slugify holds lower-case ASCII letters, digits and
\* single hyphens only, neither starts nor ends with a hyphen, and holds
\* neither two adjacent hyphens nor an underscore; slugify is idempotent:
\* slugify(slugify(x)) = slugify(x).
C25_SlugShape ==
  (pc = "slugify" /\ slugStep = 5) =>
    /\ slug = slugify(slugText)
    /\ SlugShaped(slug)
    /\ slugify(slug) = slug

\* a text with capitals, spaces around and a run of separators comes out
\* as a slug that slugify leaves as it is
C25_Witness ==
  /\ pc = "slugify"
  /\ slugStep = 5
  /\ slugText = "  A -- B  "
  /\ slug = "a-b"
  /\ slugify(slug) = "a-b"

\* ------------------------------------------------------------------------
\* What a request changes in the table (SpecPrune)
\* ------------------------------------------------------------------------
\* a request has been taken by the handler
Handled == traffic' # traffic

\* the limiter has let the request through
Admitted == LimiterCall /\ res'.status # 429

\* the record of ip is not after the step what it was before
Changed(ip) ==
  IF ip \in DOMAIN rateLimitStore /\ ip \in DOMAIN rateLimitStore'
  THEN rateLimitStore'[ip] # rateLimitStore[ip]
  ELSE TRUE

\* the record of ip, expired, has been deleted by the loop over a table of
\* more than PruneSize entries
PrunedAway(ip) ==
  /\ ip \in DOMAIN rateLimitStore
  /\ ip \notin DOMAIN rateLimitStore'
  /\ Expired(rateLimitStore[ip], clock)
  /\ Cardinality(DOMAIN rateLimitStore) > PruneSize

\* the record of the caller after a request let through
Counted ==
  LET ip == ClientIp(req')
  IN rateLimitStore'[ip] =
       IF ip \in DOMAIN rateLimitStore
          /\ ~Expired(rateLimitStore[ip], clock)
       THEN [windowStart |-> rateLimitStore[ip].windowStart,
             count |-> rateLimitStore[ip].count + 1]
       ELSE [windowStart |-> clock, count |-> 1]

\* what does not depend on the records left alone: a request let through
\* is counted whatever its url parameter, and the answer to a fetch gives
\* nothing back
CountedBeforeValidation ==
  /\ Admitted => Counted
  /\ (Handled /\ req'.method = "GET" /\ res'.status = 400) => Counted
  /\ (~Handled /\ res'.status \in {400, 500}) =>
       rateLimitStore' = rateLimitStore

\* C26 as stated: the record of a caller changes only when a GET of that
\* caller is let through by the limiter; a preflight, a request that is not
\* a GET and a request answered 429 leave every record as it was; a GET let
\* through is counted before its url parameter is looked at, so a request
\* answered 400 or 500 has used one unit.
C26_ChangeOnlyOnAdmission ==
  [][ /\ rateLimitStore' # rateLimitStore =>
           \A ip \in DOMAIN rateLimitStore \cup DOMAIN rateLimitStore' :
             Changed(ip) => Admitted /\ ip = ClientIp(req')
      /\ (Handled /\ ~Admitted) => rateLimitStore' = rateLimitStore
      /\ CountedBeforeValidation
    ]_vars

\* C26, the deletions of the limiter apart: the record of a caller changes
\* only when a GET of that caller is let through, or when it has expired
\* and a call of the limiter, let through or not, finds more than PruneSize
\* entries and deletes it; a preflight and a request that is not a GET
\* leave the table as it was, a request answered 429 leaves every record
\* that has not expired as it was; a GET let through is counted before its
\* url parameter is looked at.
C26_ChangeOnlyOnAdmissionOrPrune ==
  [][ /\ rateLimitStore' # rateLimitStore => LimiterCall
      /\ (rateLimitStore' # rateLimitStore
            /\ Cardinality(DOMAIN rateLimitStore) <= PruneSize) =>
           Admitted /\ OnlyCallerSet
      /\ (rateLimitStore' # rateLimitStore
            /\ Cardinality(DOMAIN rateLimitStore) > PruneSize) =>
           \A ip \in DOMAIN rateLimitStore \cup DOMAIN rateLimitStore' :
             Changed(ip) =>
               \/ Admitted /\ ip = ClientIp(req')
               \/ PrunedAway(ip)
      /\ (Handled /\ req'.method # "GET") => rateLimitStore' = rateLimitStore
      /\ (Handled /\ res'.status = 429) =>
           /\ ClientIp(req') \in DOMAIN rateLimitStore'
           /\ rateLimitStore'[ClientIp(req')] = rateLimitStore[ClientIp(req')]
      /\ CountedBeforeValidation
    ]_vars

\* the GET without the url parameter of a caller with one request in its
\* window: answered 400 and counted; the preflight and the POST of the
\* caller have not been
C26_Witness ==
  /\ req.method = "GET"
  /\ req.url = <<>>
  /\ res.status = 400
  /\ rateLimitStore[ClientIp(req)].count = 2
  /\ BagCardinality(traffic) = 0

\* a fetch has failed, the caller is answered 500 and its record holds the
\* request
C26_WitnessFailed ==
  /\ res.status = 500
  /\ req.forwardedFor = <<"203.0.113.7">>
  /\ rateLimitStore[ClientIp(req)] = [windowStart |-> clock, count |-> 1]

====
